---------------------------- MODULE Spec2Model ----------------------------
(***************************************************************************)
(* The compilation orchestrator of src/wasm/module-compiler.cc: the        *)
(* CompilationStateImpl (unit queues, outstanding counters, error latch,   *)
(* callbacks, worker accounting), the CompilationUnitBuilder, the          *)
(* BackgroundCompileTask workers, the FinishCompileTask finisher, and the  *)
(* drivers that publish units (CompileInParallel, the async job's          *)
(* PrepareAndStartCompile, the AsyncStreamingProcessor).                   *)
(*                                                                         *)
(* Every method that takes {mutex_} is one atomic step; a method of the    *)
(* CompilationStateImpl is an operator from the object (the record cs) to  *)
(* the object after the call.  Threads are the foreground thread (fg) and  *)
(* the worker threads (workers).                                           *)
(***************************************************************************)
EXTENDS Integers, Sequences, FiniteSets, TLC

\* Number of declared (non-imported) functions of the module.
NumFunctions == 2
\* Largest value of max_background_tasks_ (and number of worker threads).
MaxWorkers == 2
\* How many times Abort may be called on one compilation state.
MaxAborts == 1
\* How many times CancelAndWait may be called on one compilation state.
MaxCancels == 2
\* Largest FLAG_wasm_num_compilation_tasks explored with the streaming driver.
MaxStreamingTasks == 1

Funcs == 1..NumFunctions
WorkerIds == 1..MaxWorkers
\* V8::GetCurrentPlatform()->NumberOfWorkerThreads()
NumberOfWorkerThreads == MaxWorkers

\* enum class CompileMode
CompileMode == {"kRegular", "kTiering"}
\* ExecutionTier of a unit
kBaseline == "kBaseline"
kOptimized == "kOptimized"
\* CompilationEvent; the last two are the final events
kFinishedBaselineCompilation == "kFinishedBaselineCompilation"
kFinishedTopTierCompilation == "kFinishedTopTierCompilation"
kFailedCompilation == "kFailedCompilation"
FinalEvents == {kFinishedTopTierCompilation, kFailedCompilation}

\* The drivers of a compilation.
Drivers == {"sync", "async", "streaming"}

\* nullptr of compile_error_, and the null unique_ptr<WasmCompilationUnit>
NoError == [func_index |-> 0, msg |-> "none"]
NoUnit == [func |-> 0, tier |-> "none"]

\* WasmCompilationUnit(func_index, tier)
Unit(f, t) == [func |-> f, tier |-> t]
AllUnits == {Unit(f, t) : f \in Funcs, t \in {kBaseline, kOptimized}}

VARIABLES
  cs,        \* the CompilationStateImpl, its task runner and its observation log
  workers,   \* the BackgroundCompileTasks that run: position and unit held
  fg,        \* what the foreground thread executes: position and unit held
  builder,   \* the CompilationUnitBuilder of the driver (buffers, existence)
  drv,       \* the driver: kind, invalid functions, progress of the stream
  job        \* the AsyncCompileJob, its resolver and its observation log

vars == <<cs, workers, fg, builder, drv, job>>

\* The number of functions the module declares (none of them imported).
num_functions == drv.num_functions

----------------------------------------------------------------------------
\* Sequence helpers for the std::vector queues.
Back(q) == q[Len(q)]
PopBack(q) == SubSeq(q, 1, Len(q) - 1)
Range(q) == {q[i] : i \in 1..Len(q)}
Max(a, b) == IF a > b THEN a ELSE b
Min(a, b) == IF a < b THEN a ELSE b
Count(q, x) == Cardinality({i \in 1..Len(q) : q[i] = x})

----------------------------------------------------------------------------
(* CompilationStateImpl *)

\* The object after construction.
NewCompilationState(mode, num_compilation_tasks) ==
  [ compile_mode |-> mode,
    \* FLAG_wasm_num_compilation_tasks
    num_compilation_tasks |-> num_compilation_tasks,
    compile_error |-> NoError,
    baseline_compilation_units |-> <<>>,
    tiering_compilation_units |-> <<>>,
    finisher_is_running |-> FALSE,
    num_background_tasks |-> 0,
    baseline_finish_units |-> <<>>,
    tiering_finish_units |-> <<>>,
    callbacks |-> <<>>,
    max_background_tasks |->
      Max(1, Min(num_compilation_tasks, NumberOfWorkerThreads)),
    outstanding_baseline_units |-> 0,
    outstanding_tiering_units |-> 0,
    \* tasks posted to foreground_task_runner_ and not yet run, in order
    foreground_task_runner |-> <<>>,
    \* BackgroundCompileTasks handed to the worker pool and not yet started
    worker_pool |-> 0,
    \* background_task_manager_.canceled()
    background_canceled |-> FALSE,
    \* foreground_task_manager_.canceled()
    foreground_canceled |-> FALSE,
    \* observation log: the events passed to NotifyOnEvent, with failed() then
    fired |-> <<>>,
    \* observation log: the events a registered callback received
    delivered |-> <<>>,
    \* observation log: how often each unit left a pending / a finished queue
    handed_out |-> [u \in AllUnits |-> 0],
    returned |-> [u \in AllUnits |-> 0],
    \* observation log: units finalized per tier, and those finalized after the latch
    finalized |-> [t \in {kBaseline, kOptimized} |-> 0],
    finalized_failed |-> 0,
    \* observation log: units appended to a pending queue after the latch
    added_failed |-> 0,
    \* observation log: SetError calls (0, 1, or 2 for two and more)
    set_error_calls |-> 0,
    \* observation log: Abort calls (0, 1, or 2 for two and more)
    abort_calls |-> 0,
    \* observation log: SetNumberOfFunctionsToCompile calls (0, 1, or 2 for
    \* two and more), and whether one came with an error latched
    set_total_calls |-> 0,
    set_total_failed |-> FALSE,
    \* observation log: AddCompilationUnits was called; it was called before
    \* SetNumberOfFunctionsToCompile; the callbacks registered at its first call
    units_added |-> FALSE,
    added_before_total |-> FALSE,
    first_add_callbacks |-> 0 ]

failed(s) == s.compile_error # NoError

baseline_compilation_finished(s) ==
  \/ s.outstanding_baseline_units = 0
  \/ (s.compile_mode = "kTiering" /\ s.outstanding_tiering_units = 0)

has_outstanding_units(s) ==
  s.outstanding_tiering_units > 0 \/ s.outstanding_baseline_units > 0

\* Name of the queue finish_units() refers to.
\* The finished queue of the top tier whenever it holds a unit.
finish_unitsTieringFirst(s) ==
  IF s.tiering_finish_units # <<>> THEN "tiering_finish_units"
                                   ELSE "baseline_finish_units"

\* The finished queue chosen by what is queued, not by the baseline counter.
finish_unitsNonEmpty(s) ==
  IF s.baseline_finish_units = <<>> THEN "tiering_finish_units"
                                    ELSE "baseline_finish_units"

finish_units(s) ==
  IF baseline_compilation_finished(s) THEN "tiering_finish_units"
                                      ELSE "baseline_finish_units"

PostTask(s, task) ==
  [s EXCEPT !.foreground_task_runner = Append(@, task)]
Head1(s) == Head(s.foreground_task_runner)
PopTask(s) == [s EXCEPT !.foreground_task_runner = Tail(@)]

\* Task posting that does not look at --wasm-num-compilation-tasks.
SpawnBackgroundTasksOnWorkers(s, num_restart) ==
  IF s.background_canceled THEN s
  ELSE [s EXCEPT !.worker_pool = @ + num_restart]

\* RestartBackgroundTasks, the loop: each new BackgroundCompileTask goes to a
\* worker thread, or to the foreground task runner with
\* --wasm-num-compilation-tasks=0.  A task registered with a canceled task
\* manager never runs.
SpawnBackgroundTasks(s, num_restart) ==
  IF s.background_canceled THEN s
  ELSE IF s.num_compilation_tasks > 0
  THEN [s EXCEPT !.worker_pool = @ + num_restart]
  ELSE [s EXCEPT !.foreground_task_runner =
                    @ \o [i \in 1..num_restart |-> "BackgroundCompileTask"]]

ScheduleFinisherTask(s) == PostTask(s, "FinishCompileTask")

\* SetNumberOfFunctionsToCompile that sets the baseline counter only.
SetNumberOfFunctionsToCompileBaselineOnly(s, n) ==
  [s EXCEPT !.outstanding_baseline_units = n,
            !.set_total_calls = Min(@ + 1, 2),
            !.set_total_failed = @ \/ failed(s)]

SetNumberOfFunctionsToCompile(s, n) ==
  [s EXCEPT !.outstanding_baseline_units = n,
            !.outstanding_tiering_units =
               IF s.compile_mode = "kTiering" THEN n ELSE @,
            !.set_total_calls = Min(@ + 1, 2),
            !.set_total_failed = @ \/ failed(s)]

AddCallback(s, cb) == [s EXCEPT !.callbacks = Append(@, cb)]

\* RestartBackgroundTasks without "if (failed()) return".
RestartBackgroundTasksNoFailedCheck(s) ==
  IF s.num_background_tasks = s.max_background_tasks THEN s
  ELSE LET num_compilation_units == Len(s.baseline_compilation_units)
                                    + Len(s.tiering_compilation_units)
           stopped_tasks == s.max_background_tasks - s.num_background_tasks
           num_restart == Min(num_compilation_units, stopped_tasks)
       IN SpawnBackgroundTasks([s EXCEPT !.num_background_tasks = @ + num_restart],
                               num_restart)

\* RestartBackgroundTasks that starts one task per pending unit.
RestartBackgroundTasksNoCap(s) ==
  IF failed(s) THEN s
  ELSE IF s.num_background_tasks = s.max_background_tasks THEN s
  ELSE LET num_restart == Len(s.baseline_compilation_units)
                          + Len(s.tiering_compilation_units)
       IN SpawnBackgroundTasks([s EXCEPT !.num_background_tasks = @ + num_restart],
                               num_restart)

RestartBackgroundTasks(s) ==
  IF failed(s) THEN s
  ELSE IF s.num_background_tasks = s.max_background_tasks THEN s
  ELSE LET num_compilation_units == Len(s.baseline_compilation_units)
                                    + Len(s.tiering_compilation_units)
           stopped_tasks == s.max_background_tasks - s.num_background_tasks
           num_restart == Min(num_compilation_units, stopped_tasks)
       IN SpawnBackgroundTasks([s EXCEPT !.num_background_tasks = @ + num_restart],
                               num_restart)

AddCompilationUnits(s, baseline_units, tiering_units) ==
  LET s1 == [s EXCEPT
               !.tiering_compilation_units =
                  IF s.compile_mode = "kTiering" THEN @ \o tiering_units ELSE @,
               !.baseline_compilation_units = @ \o baseline_units,
               !.added_failed = IF failed(s)
                                THEN @ + Len(baseline_units) + Len(tiering_units)
                                ELSE @,
               !.units_added = TRUE,
               !.added_before_total = @ \/ s.set_total_calls = 0,
               !.first_add_callbacks = IF s.units_added THEN @
                                       ELSE Len(s.callbacks)]
  IN RestartBackgroundTasks(s1)

\* The unit GetNextCompilationUnit returns (NoUnit for the null pointer) ...
NextCompilationUnit(s) ==
  IF s.baseline_compilation_units # <<>> THEN Back(s.baseline_compilation_units)
  ELSE IF s.tiering_compilation_units # <<>> THEN Back(s.tiering_compilation_units)
  ELSE NoUnit

\* GetNextCompilationUnit that takes the oldest pending unit.
GetNextCompilationUnitFront(s) ==
  IF s.baseline_compilation_units # <<>>
  THEN [s EXCEPT !.baseline_compilation_units = Tail(@),
                 !.handed_out[Head(s.baseline_compilation_units)] = @ + 1]
  ELSE IF s.tiering_compilation_units # <<>>
  THEN [s EXCEPT !.tiering_compilation_units = Tail(@),
                 !.handed_out[Head(s.tiering_compilation_units)] = @ + 1]
  ELSE s

\* GetNextCompilationUnit that copies the last unit and leaves it in the queue.
GetNextCompilationUnitNoPop(s) ==
  IF s.baseline_compilation_units # <<>>
  THEN [s EXCEPT !.handed_out[Back(s.baseline_compilation_units)] = Min(@ + 1, 2)]
  ELSE IF s.tiering_compilation_units # <<>>
  THEN [s EXCEPT !.handed_out[Back(s.tiering_compilation_units)] = Min(@ + 1, 2)]
  ELSE s

\* ... and the object after the call.
GetNextCompilationUnit(s) ==
  IF s.baseline_compilation_units # <<>>
  THEN [s EXCEPT !.baseline_compilation_units = PopBack(@),
                 !.handed_out[Back(s.baseline_compilation_units)] = @ + 1]
  ELSE IF s.tiering_compilation_units # <<>>
  THEN [s EXCEPT !.tiering_compilation_units = PopBack(@),
                 !.handed_out[Back(s.tiering_compilation_units)] = @ + 1]
  ELSE s

NextExecutedUnit(s) ==
  LET units == s[finish_units(s)]
  IN IF units = <<>> THEN NoUnit ELSE Back(units)

GetNextExecutedUnit(s) ==
  LET q == finish_units(s)
  IN IF s[q] = <<>> THEN s
     ELSE [s EXCEPT ![q] = PopBack(@), !.returned[Back(s[q])] = @ + 1]

HasCompilationUnitToFinish(s) == s[finish_units(s)] # <<>>

\* NotifyOnEvent that calls the callbacks it saw registered at construction.
NotifyOnEventStaleCallbacks(s, event) ==
  [s EXCEPT !.fired = Append(@, [event |-> event, failed |-> failed(s)]),
            !.delivered = Append(@, event),
            !.callbacks = IF event \in FinalEvents THEN <<>> ELSE @]

NotifyOnEvent(s, event) ==
  [s EXCEPT !.fired = Append(@, [event |-> event, failed |-> failed(s)]),
            !.delivered = IF s.callbacks # <<>> THEN Append(@, event) ELSE @,
            !.callbacks = IF event \in FinalEvents THEN <<>> ELSE @]

\* OnFinishedUnit that notifies "top tier finished" before "baseline finished".
OnFinishedUnitSwapped(s) ==
  LET is_tiering_mode == s.compile_mode = "kTiering"
      is_tiering_unit == is_tiering_mode /\ s.outstanding_baseline_units = 0
  IN IF is_tiering_unit
     THEN LET s1 == [s EXCEPT !.outstanding_tiering_units = @ - 1]
          IN IF s1.outstanding_tiering_units = 0
             THEN NotifyOnEvent(s1, kFinishedTopTierCompilation)
             ELSE s1
     ELSE LET s1 == [s EXCEPT !.outstanding_baseline_units = @ - 1]
          IN IF s1.outstanding_baseline_units = 0
             THEN IF ~is_tiering_mode
                  THEN NotifyOnEvent(NotifyOnEvent(s1, kFinishedTopTierCompilation),
                                     kFinishedBaselineCompilation)
                  ELSE NotifyOnEvent(s1, kFinishedBaselineCompilation)
             ELSE s1

\* OnFinishedUnit without the check of the compile mode: "top tier finished"
\* is notified with "baseline finished" also when tiering.
OnFinishedUnitNoModeCheck(s) ==
  LET is_tiering_mode == s.compile_mode = "kTiering"
      is_tiering_unit == is_tiering_mode /\ s.outstanding_baseline_units = 0
  IN IF is_tiering_unit
     THEN LET s1 == [s EXCEPT !.outstanding_tiering_units = @ - 1]
          IN IF s1.outstanding_tiering_units = 0
             THEN NotifyOnEvent(s1, kFinishedTopTierCompilation)
             ELSE s1
     ELSE LET s1 == [s EXCEPT !.outstanding_baseline_units = @ - 1]
          IN IF s1.outstanding_baseline_units = 0
             THEN NotifyOnEvent(NotifyOnEvent(s1, kFinishedBaselineCompilation),
                                kFinishedTopTierCompilation)
             ELSE s1

\* OnFinishedUnit that reports the end of baseline compilation only.
OnFinishedUnitBaselineOnly(s) ==
  LET is_tiering_mode == s.compile_mode = "kTiering"
      is_tiering_unit == is_tiering_mode /\ s.outstanding_baseline_units = 0
  IN IF is_tiering_unit
     THEN LET s1 == [s EXCEPT !.outstanding_tiering_units = @ - 1]
          IN IF s1.outstanding_tiering_units = 0
             THEN NotifyOnEvent(s1, kFinishedTopTierCompilation)
             ELSE s1
     ELSE LET s1 == [s EXCEPT !.outstanding_baseline_units = @ - 1]
          IN IF s1.outstanding_baseline_units = 0
             THEN NotifyOnEvent(s1, kFinishedBaselineCompilation)
             ELSE s1

OnFinishedUnit(s) ==
  LET is_tiering_mode == s.compile_mode = "kTiering"
      is_tiering_unit == is_tiering_mode /\ s.outstanding_baseline_units = 0
  IN IF is_tiering_unit
     THEN LET s1 == [s EXCEPT !.outstanding_tiering_units = @ - 1]
          IN IF s1.outstanding_tiering_units = 0
             THEN NotifyOnEvent(s1, kFinishedTopTierCompilation)
             ELSE s1
     ELSE LET s1 == [s EXCEPT !.outstanding_baseline_units = @ - 1]
          IN IF s1.outstanding_baseline_units = 0
             THEN LET s2 == NotifyOnEvent(s1, kFinishedBaselineCompilation)
                  IN IF ~is_tiering_mode
                     THEN NotifyOnEvent(s2, kFinishedTopTierCompilation)
                     ELSE s2
             ELSE s1

\* A finisher that counts the unit it dequeued twice.
FinalizeUnitTwice(s, unit) ==
  [OnFinishedUnit(OnFinishedUnit(s)) EXCEPT
     !.finalized[unit.tier] = @ + 1,
     !.finalized_failed = IF failed(s) THEN @ + 1 ELSE @]

\* A finisher finalizes the unit it dequeued: OnFinishedUnit, and the log of it.
FinalizeUnit(s, unit) ==
  [OnFinishedUnit(s) EXCEPT !.finalized[unit.tier] = @ + 1,
                            !.finalized_failed = IF failed(s) THEN @ + 1 ELSE @]

\* ScheduleUnitForFinishing that posts the finisher and leaves the flag.
ScheduleUnitForFinishingNoFlag(s, unit, tier) ==
  LET s1 == IF s.compile_mode = "kTiering" /\ tier = kOptimized
            THEN [s EXCEPT !.tiering_finish_units = Append(@, unit)]
            ELSE [s EXCEPT !.baseline_finish_units = Append(@, unit)]
  IN IF ~s1.finisher_is_running /\ ~failed(s1)
     THEN ScheduleFinisherTask(s1)
     ELSE s1

ScheduleUnitForFinishing(s, unit, tier) ==
  LET s1 == IF s.compile_mode = "kTiering" /\ tier = kOptimized
            THEN [s EXCEPT !.tiering_finish_units = Append(@, unit)]
            ELSE [s EXCEPT !.baseline_finish_units = Append(@, unit)]
  IN IF ~s1.finisher_is_running /\ ~failed(s1)
     THEN [ScheduleFinisherTask(s1) EXCEPT !.finisher_is_running = TRUE]
     ELSE s1

OnBackgroundTaskStopped(s) ==
  [s EXCEPT !.num_background_tasks = @ - 1]

\* SetFinisherIsRunning: the object after the call, and the value it returns.
SetFinisherIsRunning(s, value) == [s EXCEPT !.finisher_is_running = value]
SetFinisherIsRunningChanged(s, value) == s.finisher_is_running # value

\* SetError with a plain store in place of the compare-and-swap.
SetErrorOverwrite(s, func_index, msg) ==
  LET s0 == [s EXCEPT !.set_error_calls = Min(@ + 1, 2),
                      !.compile_error = [func_index |-> func_index, msg |-> msg]]
  IN IF s.compile_error # NoError THEN s0 ELSE PostTask(s0, "NotifyFailedTask")

\* SetError that latches the error and posts no notification task.
SetErrorNoNotify(s, func_index, msg) ==
  LET s0 == [s EXCEPT !.set_error_calls = Min(@ + 1, 2)]
  IN IF s0.compile_error # NoError THEN s0
     ELSE [s0 EXCEPT !.compile_error = [func_index |-> func_index, msg |-> msg]]

\* SetError without the return on a lost compare-and-swap.
SetErrorAlwaysNotify(s, func_index, msg) ==
  LET s0 == [s EXCEPT !.set_error_calls = Min(@ + 1, 2)]
  IN PostTask(IF s0.compile_error # NoError THEN s0
              ELSE [s0 EXCEPT !.compile_error =
                                 [func_index |-> func_index, msg |-> msg]],
              "NotifyFailedTask")

SetError(s, func_index, msg) ==
  LET s0 == [s EXCEPT !.set_error_calls = Min(@ + 1, 2)]
  IN IF s0.compile_error # NoError THEN s0
     ELSE PostTask([s0 EXCEPT !.compile_error =
                                 [func_index |-> func_index, msg |-> msg]],
                   "NotifyFailedTask")


\* CompilationStateImpl::Abort up to the join: the error is latched and the
\* background task manager is canceled (tasks not yet started never run).
AbortBegin(s) ==
  [SetError(s, 0, "Compilation aborted") EXCEPT !.worker_pool = 0,
                                                !.background_canceled = TRUE,
                                                !.foreground_task_runner =
                                                   [i \in DOMAIN @ |->
                                                      IF @[i] = "BackgroundCompileTask"
                                                      THEN "CanceledBackgroundCompileTask"
                                                      ELSE @[i]],
                                                !.abort_calls = Min(@ + 1, 2)]

\* Abort that posts a FreeCallbacksTask also when no callback is registered.
AbortEndAlwaysPost(s) ==
  [PostTask(s, "FreeCallbacksTask") EXCEPT !.callbacks = <<>>]

\* Abort that leaves the callbacks registered.
AbortEndKeepCallbacks(s) == s

\* CompilationStateImpl::Abort after the join: the callbacks move into a
\* FreeCallbacksTask.
AbortEnd(s) ==
  IF s.callbacks # <<>>
  THEN [PostTask(s, "FreeCallbacksTask") EXCEPT !.callbacks = <<>>]
  ELSE s

\* The tasks of foreground_task_manager_: FinishCompileTask and the
\* notification task of SetError.
ForegroundManaged == {"FinishCompileTask", "NotifyFailedTask"}

\* CompilationStateImpl::CancelAndWait, up to the join of
\* background_task_manager_.CancelAndWait(): tasks not yet started are
\* canceled, started ones run to their end.
CancelAndWaitBegin(s) ==
  [s EXCEPT !.worker_pool = 0,
            !.background_canceled = TRUE,
            !.foreground_task_runner =
               [i \in DOMAIN @ |-> IF @[i] = "BackgroundCompileTask"
                                   THEN "CanceledBackgroundCompileTask"
                                   ELSE @[i]]]

\* CancelAndWait that leaves the posted foreground tasks alone.
CancelAndWaitEndKeepTasks(s) == [s EXCEPT !.foreground_canceled = TRUE]

\* CompilationStateImpl::CancelAndWait after the join:
\* foreground_task_manager_.CancelAndWait(), called on the foreground thread
\* outside any task, cancels the posted tasks of the manager.
CancelAndWaitEnd(s) ==
  [s EXCEPT !.foreground_canceled = TRUE,
            !.foreground_task_runner =
               [i \in DOMAIN @ |-> IF @[i] \in ForegroundManaged
                                   THEN "CanceledForegroundTask"
                                   ELSE @[i]]]

----------------------------------------------------------------------------
(* CompilationUnitBuilder *)

NoBuilder == [exists |-> FALSE, baseline_units |-> <<>>, tiering_units |-> <<>>]
NewBuilder == [exists |-> TRUE, baseline_units |-> <<>>, tiering_units |-> <<>>]

AddUnit(b, mode, func_index) ==
  IF mode = "kTiering"
  THEN [b EXCEPT !.tiering_units = Append(@, Unit(func_index, kOptimized)),
                 !.baseline_units = Append(@, Unit(func_index, kBaseline))]
  ELSE [b EXCEPT !.baseline_units = Append(@, Unit(func_index, kBaseline))]

Clear(b) == [b EXCEPT !.baseline_units = <<>>, !.tiering_units = <<>>]

\* Commit that publishes also when the builder is empty.
CommitStateAlways(b, s) ==
  AddCompilationUnits(s, b.baseline_units, b.tiering_units)

\* Commit: the value it returns, the compilation state and the builder after it.
CommitResult(b) == ~(b.baseline_units = <<>> /\ b.tiering_units = <<>>)
CommitState(b, s) ==
  IF CommitResult(b) THEN AddCompilationUnits(s, b.baseline_units, b.tiering_units)
  ELSE s
\* Commit that leaves the units in the builder.
CommitBuilderKeepUnits(b) == b

CommitBuilder(b) == IF CommitResult(b) THEN Clear(b) ELSE b

\* InitializeCompilationUnits: one unit per declared function, one Commit.
RECURSIVE AddUnits(_, _, _, _)
AddUnits(b, mode, i, end) ==
  IF i > end THEN b ELSE AddUnits(AddUnit(b, mode, i), mode, i + 1, end)

InitializeCompilationUnits(s) ==
  CommitState(AddUnits(NewBuilder, s.compile_mode, 1, num_functions), s)

----------------------------------------------------------------------------
(* The code generator, as far as the orchestrator sees it: a unit of an     *)
(* invalid function reports its error through CompilationState::SetError.  *)
ExecuteCompilation(s, unit) ==
  IF unit.func \in drv.bad THEN SetError(s, unit.func, "compile error") ELSE s

----------------------------------------------------------------------------
(* The foreground thread's position *)

\* after: what the thread goes on with when the join inside Abort returns.
Idle == [pc |-> "idle", unit |-> NoUnit, ret |-> 0, after |-> "idle"]
At(pc) == [fg EXCEPT !.pc = pc, !.unit = NoUnit]

\* The foreground thread is in its message loop, outside any stream callback.
ForegroundFree == fg.pc = "idle" /\ ~drv.in_chunk

----------------------------------------------------------------------------
(* BackgroundCompileTask::RunInternal, one worker thread per running task *)

NoWorker == [pc |-> "none", unit |-> NoUnit]

\* A worker thread takes a posted task and starts running it; a task posted
\* to the foreground task runner runs on the foreground thread, which does
\* nothing else until the task ends.
StartBackgroundTask(w) ==
  /\ workers[w].pc = "none"
  /\ \A v \in WorkerIds : v < w => workers[v].pc # "none"
  /\ \/ /\ cs.worker_pool > 0
        /\ cs' = [cs EXCEPT !.worker_pool = @ - 1]
        /\ fg' = fg
     \/ /\ ForegroundFree
        /\ cs.foreground_task_runner # <<>> /\ Head1(cs) = "BackgroundCompileTask"
        /\ cs' = PopTask(cs)
        /\ fg' = At("background_task")
  /\ workers' = [workers EXCEPT ![w].pc = "loop"]
  /\ UNCHANGED <<builder, drv, job>>

\* while (!compilation_state->failed())
WorkerLoop(w) ==
  /\ workers[w].pc = "loop"
  /\ workers' = [workers EXCEPT ![w].pc = IF failed(cs) THEN "stop" ELSE "fetch"]
  /\ UNCHANGED <<cs, fg, builder, drv, job>>

\* FetchAndExecuteCompilationUnit: GetNextCompilationUnit
WorkerFetch(w) ==
  /\ workers[w].pc = "fetch"
  /\ LET unit == NextCompilationUnit(cs)
     IN /\ cs' = GetNextCompilationUnit(cs)
        /\ workers' = [workers EXCEPT ![w] =
                         IF unit = NoUnit THEN [pc |-> "stop", unit |-> NoUnit]
                         ELSE [pc |-> "execute", unit |-> unit]]
  /\ UNCHANGED <<fg, builder, drv, job>>

\* FetchAndExecuteCompilationUnit: unit->ExecuteCompilation
WorkerExecute(w) ==
  /\ workers[w].pc = "execute"
  /\ cs' = ExecuteCompilation(cs, workers[w].unit)
  /\ workers' = [workers EXCEPT ![w].pc = "schedule"]
  /\ UNCHANGED <<fg, builder, drv, job>>

\* FetchAndExecuteCompilationUnit: ScheduleUnitForFinishing
WorkerSchedule(w) ==
  /\ workers[w].pc = "schedule"
  /\ cs' = ScheduleUnitForFinishing(cs, workers[w].unit, workers[w].unit.tier)
  /\ workers' = [workers EXCEPT ![w] = [pc |-> "loop", unit |-> NoUnit]]
  /\ UNCHANGED <<fg, builder, drv, job>>

\* compilation_state->OnBackgroundTaskStopped, end of the task
WorkerStop(w) ==
  /\ workers[w].pc = "stop"
  /\ cs' = OnBackgroundTaskStopped(cs)
  /\ workers' = [workers EXCEPT ![w] = NoWorker]
  /\ fg' = IF fg.pc = "background_task" THEN Idle ELSE fg
  /\ UNCHANGED <<builder, drv, job>>


----------------------------------------------------------------------------
(* AsyncCompileJob.  Its methods read and change the job and, through the  *)
(* task runner, the compilation state: they are operators on the pair      *)
(* [cs, job].                                                              *)

DecodeError == [func_index |-> 0, msg |-> "Wasm decoding failed"]

\* The job after construction; the sync driver has none (registered = FALSE).
NewJob(registered) ==
  [ alive |-> registered,              \* in the engine's registry, not destroyed
    native_module |-> FALSE,           \* native_module_ != nullptr
    step |-> "none",                   \* step_
    error |-> NoError,                 \* the error the step was created with
    pending_foreground_task |-> FALSE, \* pending_foreground_task_ != nullptr
    \* a CompileTask of background_task_manager_ waits for a worker thread
    background_task |-> FALSE,
    outstanding_finishers |-> 1,       \* outstanding_finishers_
    \* RemoveCompileJob dropped the last reference: the destructor runs now
    destroy |-> FALSE,
    \* observation log: calls of the resolver, the error it was rejected with
    resolved |-> 0,
    rejected |-> 0,
    reject_error |-> NoError,
    \* observation log: StartForegroundTask was called with a task pending
    task_overwritten |-> FALSE,
    \* observation log: events the job's callback received and steps it took
    log |-> <<>> ]

Log(w, what) == [w EXCEPT !.job.log = Append(@, what)]
Logged(what) == \E i \in 1..Len(job.log) : job.log[i] = what
\* Position of the first occurrence in the job's log, 0 for none.
LogIndex(what) ==
  IF Logged(what)
  THEN CHOOSE i \in 1..Len(job.log) :
         job.log[i] = what /\ \A k \in 1..(i - 1) : job.log[k] # what
  ELSE 0

\* outstanding_finishers_.fetch_sub(1) == 1
\* A finisher count that tells every caller it was the last.
DecrementAndCheckFinisherCountAlways(w) == TRUE

DecrementAndCheckFinisherCount(w) == w.job.outstanding_finishers = 1
DecrementFinisherCount(w) == [w EXCEPT !.job.outstanding_finishers = @ - 1]

StartForegroundTask(w) ==
  [w EXCEPT !.job.task_overwritten = @ \/ w.job.pending_foreground_task,
            !.job.pending_foreground_task = TRUE,
            !.cs = PostTask(@, "CompileTask")]

\* CancelPendingForegroundTask that forgets the task and leaves it its job
\* pointer.
CancelPendingForegroundTaskKeepJob(w) ==
  [w EXCEPT !.job.pending_foreground_task = FALSE]

\* CancelPendingForegroundTask: the pending task (the last one posted) loses
\* its job pointer.
CancelPendingForegroundTask(w) ==
  IF ~w.job.pending_foreground_task THEN w
  ELSE LET q == w.cs.foreground_task_runner
           last == CHOOSE i \in 1..Len(q) :
                     q[i] = "CompileTask" /\ \A k \in (i + 1)..Len(q) : q[k] # "CompileTask"
       IN [w EXCEPT !.job.pending_foreground_task = FALSE,
                    !.cs.foreground_task_runner[last] = "CanceledCompileTask"]

\* background_task_manager_.CancelAndWait() of the job: the background
\* CompileTask that has not started is canceled, on the worker pool or on
\* the foreground task runner.
CancelBackgroundStepTask(w) ==
  [w EXCEPT !.job.background_task = FALSE,
            !.cs.foreground_task_runner =
               [i \in 1..Len(@) |-> IF @[i] = "BackgroundStepTask"
                                    THEN "CanceledCompileTask" ELSE @[i]]]

\* DoSync that starts a foreground task also when one is pending.
DoSyncAlwaysStart(w, step, use_existing_fg_task, error) ==
  StartForegroundTask([w EXCEPT !.job.step = step, !.job.error = error])

\* DoSync that leaves the step of a pending task in place.
DoSyncKeepPendingStep(w, step, use_existing_fg_task, error) ==
  IF use_existing_fg_task /\ w.job.pending_foreground_task THEN w
  ELSE StartForegroundTask([w EXCEPT !.job.step = step, !.job.error = error])

\* DoSync<Step, use_existing_fg_task>(error)
DoSync(w, step, use_existing_fg_task, error) ==
  LET w1 == [w EXCEPT !.job.step = step, !.job.error = error]
  IN IF use_existing_fg_task /\ w.job.pending_foreground_task THEN w1
     ELSE StartForegroundTask(w1)

\* AsyncCompileJob::StartBackgroundTask: the task goes to a worker thread,
\* or to the foreground task runner with --wasm-num-compilation-tasks=0.
AsyncCompileJobStartBackgroundTask(w) ==
  IF w.cs.num_compilation_tasks > 0
  THEN [w EXCEPT !.job.background_task = TRUE]
  ELSE [w EXCEPT !.cs = PostTask(@, "BackgroundStepTask")]

DoAsync(w, step) ==
  AsyncCompileJobStartBackgroundTask([w EXCEPT !.job.step = step])

FinishCompile(w, compile_wrappers) ==
  DoSync(Log(w, "FinishCompile"),
         IF compile_wrappers THEN "CompileWrappers" ELSE "FinishModule",
         FALSE, NoError)

\* wasm_engine()->RemoveCompileJob(job) with no other owner of the job.
RemoveCompileJob(w) ==
  [Log(w, "RemoveCompileJob") EXCEPT !.job.alive = FALSE, !.job.destroy = TRUE]

\* AsyncCompileFailed that rejects and keeps the job registered.
AsyncCompileFailedKeepJob(w) ==
  [w EXCEPT !.job.rejected = Min(@ + 1, 2),
            !.job.reject_error = w.job.error,
            !.job.log = Append(@, "OnCompilationFailed")]

\* AsyncCompileFailed: the job leaves the registry, the resolver is rejected,
\* and the job is destroyed on return.
AsyncCompileFailed(w) ==
  [RemoveCompileJob(w) EXCEPT !.job.rejected = Min(@ + 1, 2),
                              !.job.reject_error = w.job.error,
                              !.job.log = Append(@, "OnCompilationFailed")]

AsyncCompileSucceeded(w) ==
  [w EXCEPT !.job.resolved = Min(@ + 1, 2),
            !.job.log = Append(@, "OnCompilationSucceeded")]

\* The callback without the finisher count: FinishCompile on every
\* kFinishedBaselineCompilation.
CompilationStateCallbackNoLatch(w, event) ==
  LET w0 == Log(w, event)
  IN CASE event = kFinishedBaselineCompilation ->
            FinishCompile(DecrementFinisherCount(w0), TRUE)
       [] event = kFinishedTopTierCompilation ->
            IF ~w0.job.pending_foreground_task /\ w0.job.outstanding_finishers = 0
            THEN RemoveCompileJob(w0)
            ELSE w0
       [] event = kFailedCompilation ->
            DoSync(w0, "CompileFailed", TRUE, w0.cs.compile_error)

\* CompilationStateCallback::operator()
\* The job's callback removing the job at the end of top-tier compilation
\* whatever task is pending.
CompilationStateCallbackNoPendingCheck(w, event) ==
  LET w0 == Log(w, event)
  IN CASE event = kFinishedBaselineCompilation ->
            IF DecrementAndCheckFinisherCount(w0)
            THEN FinishCompile(DecrementFinisherCount(w0), TRUE)
            ELSE DecrementFinisherCount(w0)
       [] event = kFinishedTopTierCompilation -> RemoveCompileJob(w0)
       [] event = kFailedCompilation ->
            DoSync(w0, "CompileFailed", TRUE, w0.cs.compile_error)

\* The job's callback removing the job at the end of top-tier compilation
\* without looking at the finisher count.
CompilationStateCallbackNoFinisherCheck(w, event) ==
  LET w0 == Log(w, event)
  IN CASE event = kFinishedBaselineCompilation ->
            IF DecrementAndCheckFinisherCount(w0)
            THEN FinishCompile(DecrementFinisherCount(w0), TRUE)
            ELSE DecrementFinisherCount(w0)
       [] event = kFinishedTopTierCompilation ->
            IF ~w0.job.pending_foreground_task
            THEN RemoveCompileJob(w0) ELSE w0
       [] event = kFailedCompilation ->
            DoSync(w0, "CompileFailed", TRUE, w0.cs.compile_error)

CompilationStateCallback(w, event) ==
  LET w0 == Log(w, event)
  IN CASE event = kFinishedBaselineCompilation ->
            IF DecrementAndCheckFinisherCount(w0)
            THEN FinishCompile(DecrementFinisherCount(w0), TRUE)
            ELSE DecrementFinisherCount(w0)
       [] event = kFinishedTopTierCompilation ->
            IF ~w0.job.pending_foreground_task /\ w0.job.outstanding_finishers = 0
            THEN RemoveCompileJob(w0)
            ELSE w0
       [] event = kFailedCompilation ->
            DoSync(w0, "CompileFailed", TRUE, w0.cs.compile_error)

\* The callbacks NotifyOnEvent made, in order.
RECURSIVE RunCallbacks(_, _)
RunCallbacks(w, events) ==
  IF events = <<>> THEN w
  ELSE RunCallbacks(CompilationStateCallback(w, Head(events)), Tail(events))

\* The events NotifyOnEvent delivered between two states of the object.
Deliveries(s0, s1) == SubSeq(s1.delivered, Len(s0.delivered) + 1, Len(s1.delivered))

\* Steps whose FinishModule removes the job whatever units are outstanding.
RunStepAlwaysRemove(w) ==
  CASE w.job.step = "CompileWrappers" ->
         DoSync(Log(w, "CompileWrappers"), "FinishModule", FALSE, NoError)
    [] w.job.step = "FinishModule" ->
         RemoveCompileJob(AsyncCompileSucceeded(Log(w, "FinishModule")))
    [] w.job.step \in {"CompileFailed", "DecodeFail"} ->
         AsyncCompileFailed(Log(w, w.job.step))
    [] OTHER -> w

\* The step a CompileTask runs in the foreground.
RunStep(w) ==
  CASE w.job.step = "CompileWrappers" ->
         DoSync(Log(w, "CompileWrappers"), "FinishModule", FALSE, NoError)
    [] w.job.step = "FinishModule" ->
         LET w1 == AsyncCompileSucceeded(Log(w, "FinishModule"))
         IN IF \/ w.cs.compile_mode = "kRegular"
               \/ num_functions = 0
               \/ ~has_outstanding_units(w.cs)
            THEN RemoveCompileJob(w1) ELSE w1
    [] w.job.step \in {"CompileFailed", "DecodeFail"} ->
         AsyncCompileFailed(Log(w, w.job.step))
    [] OTHER -> w

----------------------------------------------------------------------------
(* The foreground thread *)

(* CompileNativeModule, not lazy: the choice of the flavour *)

compile_parallel ==
  /\ cs.num_compilation_tasks > 0
  /\ num_functions > 1
  /\ NumberOfWorkerThreads > 0

(* CompileSequentially, on the thread that called CompileNativeModule *)

\* The loop over the functions begins.
CompileSequentiallyStart ==
  /\ drv.kind = "sync" /\ drv.phase = "start" /\ fg.pc = "idle"
  /\ ~compile_parallel
  /\ fg' = IF num_functions = 0 THEN At("sync_report") ELSE At("seq_compile")
  /\ drv' = [drv EXCEPT !.phase = "compiling"]
  /\ UNCHANGED <<cs, workers, builder, job>>

\* One iteration: CompileWasmFunction, then
\* if (comp_state->failed()) { thrower->CompileFailed(...); break; }
CompileWasmFunction ==
  /\ fg.pc = "seq_compile"
  /\ cs' = ExecuteCompilation(cs, Unit(drv.next_function + 1, kBaseline))
  /\ drv' = [drv EXCEPT !.next_function = @ + 1]
  /\ fg' = IF failed(cs') \/ drv'.next_function = num_functions
           THEN At("sync_report") ELSE fg
  /\ UNCHANGED <<workers, builder, job>>

(* CompileInParallel, on the thread that called CompileNativeModule *)

\* CompileInParallel that publishes the units before it sets their number.
CompileInParallelStartAddFirst ==
  /\ drv.kind = "sync" /\ drv.phase = "start" /\ fg.pc = "idle"
  /\ compile_parallel
  /\ cs' = SetNumberOfFunctionsToCompile(
             InitializeCompilationUnits(SetFinisherIsRunning(cs, TRUE)),
             num_functions)
  /\ fg' = At("sync_fetch")
  /\ drv' = [drv EXCEPT !.phase = "compiling"]
  /\ UNCHANGED <<workers, builder, job>>

\* SetFinisherIsRunning(true), SetNumberOfFunctionsToCompile,
\* InitializeCompilationUnits
CompileInParallelStart ==
  /\ drv.kind = "sync" /\ drv.phase = "start" /\ fg.pc = "idle"
  /\ compile_parallel
  /\ cs' = InitializeCompilationUnits(
             SetNumberOfFunctionsToCompile(SetFinisherIsRunning(cs, TRUE),
                                           num_functions))
  /\ fg' = At("sync_fetch")
  /\ drv' = [drv EXCEPT !.phase = "compiling"]
  /\ UNCHANGED <<workers, builder, job>>

\* FetchAndExecuteCompilationUnit on the calling thread: GetNextCompilationUnit
SyncFetch ==
  /\ fg.pc = "sync_fetch"
  /\ LET unit == NextCompilationUnit(cs)
     IN /\ cs' = GetNextCompilationUnit(cs)
        /\ fg' = IF unit = NoUnit THEN At("sync_loop2")
                 ELSE [fg EXCEPT !.pc = "sync_execute", !.unit = unit]
  /\ UNCHANGED <<workers, builder, drv, job>>

SyncExecute ==
  /\ fg.pc = "sync_execute"
  /\ cs' = ExecuteCompilation(cs, fg.unit)
  /\ fg' = [fg EXCEPT !.pc = "sync_schedule"]
  /\ UNCHANGED <<workers, builder, drv, job>>

\* ScheduleUnitForFinishing, then the loop condition
\* !compilation_state->baseline_compilation_finished()
SyncSchedule ==
  /\ fg.pc = "sync_schedule"
  /\ cs' = ScheduleUnitForFinishing(cs, fg.unit, fg.unit.tier)
  /\ fg' = IF baseline_compilation_finished(cs') THEN At("sync_loop2")
           ELSE [At("finish_check") EXCEPT !.ret = 1]
  /\ UNCHANGED <<workers, builder, drv, job>>

\* Where FinishCompilationUnits returns to.
FinishReturn == IF fg.ret = 1 THEN At("sync_check1") ELSE At("sync_check2")

\* FinishCompilationUnits: while (!compilation_state->failed())
FinishCheck ==
  /\ fg.pc = "finish_check"
  /\ fg' = IF failed(cs) THEN FinishReturn ELSE At("finish_get")
  /\ UNCHANGED <<cs, workers, builder, drv, job>>

\* FinishCompilationUnits: GetNextExecutedUnit; if (unit == nullptr) break
FinishGet ==
  /\ fg.pc = "finish_get"
  /\ LET unit == NextExecutedUnit(cs)
     IN /\ cs' = GetNextExecutedUnit(cs)
        /\ fg' = IF unit = NoUnit THEN FinishReturn
                 ELSE [fg EXCEPT !.pc = "finish_unit", !.unit = unit]
  /\ UNCHANGED <<workers, builder, drv, job>>

\* FinishCompilationUnits: OnFinishedUnit
FinishUnit ==
  /\ fg.pc = "finish_unit"
  /\ cs' = FinalizeUnit(cs, fg.unit)
  /\ fg' = At("finish_check")
  /\ UNCHANGED <<workers, builder, drv, job>>

\* first loop: if (compilation_state->failed()) break
SyncCheck1 ==
  /\ fg.pc = "sync_check1"
  /\ fg' = IF failed(cs) THEN At("sync_loop2") ELSE At("sync_fetch")
  /\ UNCHANGED <<cs, workers, builder, drv, job>>

\* second loop: while (!compilation_state->failed())
SyncLoop2 ==
  /\ fg.pc = "sync_loop2"
  /\ fg' = IF failed(cs) THEN At("sync_end")
           ELSE [At("finish_check") EXCEPT !.ret = 2]
  /\ UNCHANGED <<cs, workers, builder, drv, job>>

\* A second loop that finishes one batch of units and leaves.
SyncCheck2AlwaysBreak ==
  /\ fg.pc = "sync_check2"
  /\ fg' = At("sync_end")
  /\ UNCHANGED <<cs, workers, builder, drv, job>>

\* second loop: if (compilation_state->baseline_compilation_finished()) break
SyncCheck2 ==
  /\ fg.pc = "sync_check2"
  /\ fg' = IF baseline_compilation_finished(cs) THEN At("sync_end")
           ELSE At("sync_loop2")
  /\ UNCHANGED <<cs, workers, builder, drv, job>>

\* End of CompileInParallel: the finisher flag is released in tiering mode.
CompileInParallelEnd ==
  /\ fg.pc = "sync_end"
  /\ cs' = IF ~failed(cs) /\ cs.compile_mode = "kTiering"
           THEN SetFinisherIsRunning(cs, FALSE) ELSE cs
  /\ fg' = At("sync_report")
  /\ UNCHANGED <<workers, builder, drv, job>>

\* A report that looks at the baseline counter before the error.
CompileNativeModuleResultBaselineFirst(s) ==
  IF baseline_compilation_finished(s)
  THEN [result |-> "ok", error |-> NoError]
  ELSE [result |-> IF failed(s) THEN "error" ELSE "ok", error |-> s.compile_error]

\* What the caller of CompileNativeModule finds in the thrower.
CompileNativeModuleResult(s) ==
  [result |-> IF failed(s) THEN "error" ELSE "ok", error |-> s.compile_error]

\* CompileNativeModule: if (compilation_state->failed()) thrower->CompileFailed
CompileNativeModuleReport ==
  /\ fg.pc = "sync_report"
  /\ fg' = Idle
  /\ drv' = [drv EXCEPT !.phase = "done",
                        !.result = CompileNativeModuleResult(cs).result,
                        !.error = CompileNativeModuleResult(cs).error]
  /\ UNCHANGED <<cs, workers, builder, job>>


(* AsyncCompileJob::Start: DoAsync<DecodeModule> *)
Start ==
  /\ drv.kind = "async" /\ drv.phase = "start" /\ fg.pc = "idle"
  /\ job.alive
  /\ LET w1 == DoAsync([cs |-> cs, job |-> job], "DecodeModule")
     IN cs' = w1.cs /\ job' = w1.job
  /\ drv' = [drv EXCEPT !.phase = "decoding"]
  /\ UNCHANGED <<workers, fg, builder>>

(* DecodeModule::RunInBackground, in the job's background CompileTask, on a *)
(* worker thread or as a task of the foreground task runner: the module     *)
(* decodes or not, and the step goes on with DoSync<PrepareAndStartCompile> *)
(* or DoSync<DecodeFail>.                                                   *)
DecodeModule ==
  /\ drv.kind = "async" /\ drv.phase = "decoding"
  /\ job.alive /\ job.step = "DecodeModule"
  /\ \E ok \in BOOLEAN :
       LET w0 == IF job.background_task
                 THEN [cs |-> cs, job |-> [job EXCEPT !.background_task = FALSE]]
                 ELSE [cs |-> PopTask(cs), job |-> job]
           w1 == IF ok
                 THEN DoSync(w0, "PrepareAndStartCompile", FALSE, NoError)
                 ELSE DoSync(w0, "DecodeFail", FALSE, DecodeError)
       IN /\ \/ job.background_task
             \/ /\ ForegroundFree
                /\ cs.foreground_task_runner # <<>>
                /\ Head1(cs) = "BackgroundStepTask"
          /\ cs' = w1.cs /\ job' = w1.job
          /\ drv' = [drv EXCEPT !.phase = IF ok THEN "decoded" ELSE "decode_failed"]
  /\ UNCHANGED <<workers, fg, builder>>

\* PrepareAndStartCompile without the shortcut for an empty module.
PrepareAndStartCompileNoEmptyCheck ==
  /\ ForegroundFree
  /\ cs.foreground_task_runner # <<>> /\ Head1(cs) = "CompileTask"
  /\ job.step = "PrepareAndStartCompile"
  /\ cs' = InitializeCompilationUnits(
             SetNumberOfFunctionsToCompile(AddCallback(PopTask(cs), "job"),
                                           num_functions))
  /\ job' = [job EXCEPT !.pending_foreground_task = FALSE,
                        !.native_module = TRUE,
                        !.log = Append(@, "PrepareAndStartCompile")]
  /\ drv' = [drv EXCEPT !.phase = "compiling"]
  /\ UNCHANGED <<workers, fg, builder>>

(* PrepareAndStartCompile::RunInForeground, in the job's foreground         *)
(* CompileTask: an empty module goes on with FinishCompile; otherwise       *)
(* AddCallback, SetNumberOfFunctionsToCompile, InitializeCompilationUnits.  *)
PrepareAndStartCompile ==
  /\ ForegroundFree
  /\ cs.foreground_task_runner # <<>> /\ Head1(cs) = "CompileTask"
  /\ job.step = "PrepareAndStartCompile"
  /\ LET w0 == Log([cs |-> PopTask(cs),
                    job |-> [job EXCEPT !.pending_foreground_task = FALSE,
                                        !.native_module = TRUE]],
                   "PrepareAndStartCompile")
         w1 == IF num_functions = 0
               THEN FinishCompile(w0, TRUE)
               ELSE [w0 EXCEPT !.cs = InitializeCompilationUnits(
                                        SetNumberOfFunctionsToCompile(
                                          AddCallback(@, "job"), num_functions))]
     IN cs' = w1.cs /\ job' = w1.job
  /\ drv' = [drv EXCEPT !.phase = "compiling"]
  /\ UNCHANGED <<workers, fg, builder>>

(* AsyncStreamingProcessor.  The stream decoder calls it on the foreground  *)
(* thread, chunk by chunk: the callbacks for the bytes of one chunk, then   *)
(* OnFinishedChunk; no foreground task runs inside a chunk.                 *)

\* ProcessCodeSectionHeader: PrepareAndStartCompile(start_compilation = false),
\* SetNumberOfFunctionsToCompile(functions_count), a fresh builder
ProcessCodeSectionHeader ==
  /\ drv.kind = "streaming" /\ drv.phase = "start" /\ fg.pc = "idle"
  /\ job.alive
  /\ cs' = SetNumberOfFunctionsToCompile(AddCallback(cs, "job"), num_functions)
  /\ builder' = NewBuilder
  /\ drv' = [drv EXCEPT !.phase = "code", !.in_chunk = TRUE]
  /\ job' = [job EXCEPT !.native_module = TRUE, !.outstanding_finishers = 2,
                        !.task_overwritten = @ \/ job.pending_foreground_task]
  /\ UNCHANGED <<workers, fg>>

ProcessFunctionBody ==
  /\ drv.kind = "streaming" /\ drv.phase = "code" /\ fg.pc = "idle"
  /\ job.alive
  /\ drv.next_function < num_functions
  /\ builder' = AddUnit(builder, cs.compile_mode, drv.next_function + 1)
  /\ drv' = [drv EXCEPT !.next_function = @ + 1, !.in_chunk = TRUE]
  /\ UNCHANGED <<cs, workers, fg, job>>

\* OnFinishedChunk: if (compilation_unit_builder_) CommitCompilationUnits()
OnFinishedChunk ==
  /\ drv.kind = "streaming" /\ drv.in_chunk /\ fg.pc = "idle"
  /\ job.alive
  /\ cs' = IF builder.exists THEN CommitState(builder, cs) ELSE cs
  /\ builder' = IF builder.exists THEN CommitBuilder(builder) ELSE builder
  /\ drv' = [drv EXCEPT !.in_chunk = FALSE,
                        !.last_commit =
                           IF ~builder.exists THEN @
                           ELSE IF CommitResult(builder) THEN "true" ELSE "false"]
  /\ UNCHANGED <<workers, fg, job>>

\* ProcessSection for a section after the code section: the builder is
\* committed and reset.
ProcessSection ==
  /\ drv.kind = "streaming" /\ drv.phase = "code" /\ fg.pc = "idle"
  /\ job.alive
  /\ drv.next_function = num_functions
  /\ cs' = CommitState(builder, cs)
  /\ builder' = NoBuilder
  /\ drv' = [drv EXCEPT !.phase = "after_code", !.in_chunk = TRUE,
                        !.last_commit =
                           IF CommitResult(builder) THEN "true" ELSE "false"]
  /\ UNCHANGED <<workers, fg, job>>

\* OnFinishedStream, after the last chunk: DecrementAndCheckFinisherCount,
\* and FinishCompile(true) if the baseline compilation has reported already.
OnFinishedStream ==
  /\ drv.kind = "streaming" /\ drv.phase \in {"code", "after_code"}
  /\ ForegroundFree
  /\ job.alive
  /\ drv.next_function = num_functions
  /\ LET w0 == Log([cs |-> cs, job |-> job], "OnFinishedStream")
         w1 == IF DecrementAndCheckFinisherCount(w0)
               THEN FinishCompile(DecrementFinisherCount(w0), TRUE)
               ELSE DecrementFinisherCount(w0)
     IN cs' = w1.cs /\ job' = w1.job
  /\ drv' = [drv EXCEPT !.phase = "finished"]
  /\ UNCHANGED <<workers, fg, builder>>

(* Tasks of the foreground task runner *)

\* A FinishCompileTask starts: if (failed()) { SetFinisherIsRunning(false); return; }
RunFinishCompileTask ==
  /\ ForegroundFree
  /\ cs.foreground_task_runner # <<>> /\ Head1(cs) = "FinishCompileTask"
  /\ IF failed(cs)
     THEN cs' = SetFinisherIsRunning(PopTask(cs), FALSE) /\ fg' = fg
     ELSE cs' = PopTask(cs) /\ fg' = At("fin_restart")
  /\ UNCHANGED <<workers, builder, drv, job>>

\* The task SetError posted: NotifyOnEvent(kFailedCompilation)
RunNotifyFailedTask ==
  /\ ForegroundFree
  /\ cs.foreground_task_runner # <<>> /\ Head1(cs) = "NotifyFailedTask"
  /\ LET cs1 == NotifyOnEvent(PopTask(cs), kFailedCompilation)
         w1 == RunCallbacks([cs |-> cs1, job |-> job], Deliveries(cs, cs1))
     IN cs' = w1.cs /\ job' = w1.job
  /\ UNCHANGED <<workers, fg, builder, drv>>

\* FreeCallbacksTask::Run
RunFreeCallbacksTask ==
  /\ ForegroundFree
  /\ cs.foreground_task_runner # <<>> /\ Head1(cs) = "FreeCallbacksTask"
  /\ cs' = PopTask(cs)
  /\ UNCHANGED <<workers, fg, builder, drv, job>>

(* FinishCompileTask::RunInternal, the loop *)

FinisherRestart ==
  /\ fg.pc = "fin_restart"
  /\ cs' = RestartBackgroundTasks(cs)
  /\ fg' = At("fin_get")
  /\ UNCHANGED <<workers, builder, drv, job>>

FinisherGet ==
  /\ fg.pc = "fin_get"
  /\ LET unit == NextExecutedUnit(cs)
     IN /\ cs' = GetNextExecutedUnit(cs)
        /\ fg' = IF unit = NoUnit THEN At("fin_clear")
                 ELSE [fg EXCEPT !.pc = "fin_check", !.unit = unit]
  /\ UNCHANGED <<workers, builder, drv, job>>

\* unit == nullptr: SetFinisherIsRunning(false)
FinisherClear ==
  /\ fg.pc = "fin_clear"
  /\ cs' = SetFinisherIsRunning(cs, FALSE)
  /\ fg' = At("fin_has")
  /\ UNCHANGED <<workers, builder, drv, job>>

\* HasCompilationUnitToFinish() && ...
FinisherHas ==
  /\ fg.pc = "fin_has"
  /\ fg' = IF HasCompilationUnitToFinish(cs) THEN At("fin_reset") ELSE Idle
  /\ UNCHANGED <<cs, workers, builder, drv, job>>

\* ... && SetFinisherIsRunning(true): continue, else break
FinisherReset ==
  /\ fg.pc = "fin_reset"
  /\ cs' = SetFinisherIsRunning(cs, TRUE)
  /\ fg' = IF SetFinisherIsRunningChanged(cs, TRUE) THEN At("fin_restart") ELSE Idle
  /\ UNCHANGED <<workers, builder, drv, job>>

\* if (compilation_state_->failed()) break
FinisherCheck ==
  /\ fg.pc = "fin_check"
  /\ fg' = IF failed(cs) THEN Idle ELSE [fg EXCEPT !.pc = "fin_unit"]
  /\ UNCHANGED <<cs, workers, builder, drv, job>>

\* A FinishCompileTask that returns at its deadline without re-posting itself.
FinisherUnitYieldNoRepost ==
  /\ fg.pc = "fin_unit"
  /\ \E deadline_reached \in BOOLEAN :
       LET cs1 == FinalizeUnit(cs, fg.unit)
           w1 == RunCallbacks([cs |-> cs1, job |-> job], Deliveries(cs, cs1))
       IN IF w1.job.destroy
          THEN /\ cs' = AbortBegin([w1.cs EXCEPT !.callbacks = cs.callbacks])
               /\ job' = [w1.job EXCEPT !.destroy = FALSE]
               /\ fg' = [At("abort_wait") EXCEPT
                           !.after = IF deadline_reached THEN "destroy_fin_repost"
                                     ELSE "destroy_fin_restart"]
          ELSE /\ cs' = w1.cs
               /\ job' = w1.job
               /\ fg' = IF deadline_reached THEN Idle ELSE At("fin_restart")
  /\ UNCHANGED <<workers, builder, drv>>

\* OnFinishedUnit, then the deadline: the task re-posts itself and returns
\* with the flag still set, or goes on.
FinisherUnit ==
  /\ fg.pc = "fin_unit"
  /\ \E deadline_reached \in BOOLEAN :
       LET cs1 == FinalizeUnit(cs, fg.unit)
           w1 == RunCallbacks([cs |-> cs1, job |-> job], Deliveries(cs, cs1))
       IN IF w1.job.destroy
          \* the job's callback removed the job inside NotifyOnEvent, before
          \* callbacks_.clear(): ~AsyncCompileJob calls Abort
          THEN /\ cs' = AbortBegin([w1.cs EXCEPT !.callbacks = cs.callbacks])
               /\ job' = [w1.job EXCEPT !.destroy = FALSE]
               /\ fg' = [At("abort_wait") EXCEPT
                           !.after = IF deadline_reached THEN "destroy_fin_repost"
                                     ELSE "destroy_fin_restart"]
          ELSE /\ cs' = IF deadline_reached THEN ScheduleFinisherTask(w1.cs)
                        ELSE w1.cs
               /\ job' = w1.job
               /\ fg' = IF deadline_reached THEN Idle ELSE At("fin_restart")
  /\ UNCHANGED <<workers, builder, drv>>

(* A CompileTask of the job runs its step; a canceled one does nothing. *)
RunCompileTask ==
  /\ ForegroundFree
  /\ cs.foreground_task_runner # <<>> /\ Head1(cs) = "CompileTask"
  /\ job.step # "PrepareAndStartCompile"
  /\ LET w0 == [cs |-> PopTask(cs),
                job |-> [job EXCEPT !.pending_foreground_task = FALSE]]
         w1 == RunStep(w0)
     IN IF w1.job.destroy /\ w1.job.native_module
        THEN /\ cs' = AbortBegin(w1.cs)
             /\ job' = [w1.job EXCEPT !.destroy = FALSE]
             /\ fg' = [At("abort_wait") EXCEPT !.after = "destroy"]
        ELSE LET w2 == IF w1.job.destroy THEN CancelPendingForegroundTask(w1)
                       ELSE w1
             IN /\ cs' = w2.cs
                /\ job' = [w2.job EXCEPT !.destroy = FALSE]
                /\ fg' = fg
  /\ UNCHANGED <<workers, builder, drv>>

RunCanceledCompileTask ==
  /\ ForegroundFree
  /\ cs.foreground_task_runner # <<>>
  /\ Head1(cs) \in {"CanceledCompileTask", "CanceledBackgroundCompileTask",
                   "CanceledForegroundTask"}
  /\ cs' = PopTask(cs)
  /\ UNCHANGED <<workers, fg, builder, drv, job>>

(* AsyncCompileJob::Abort, called by the embedder on the foreground thread: *)
(* the job leaves the registry and its destructor calls                     *)
(* CompilationStateImpl::Abort: SetError,                                   *)
(* background_task_manager_.CancelAndWait() ...                             *)
Abort ==
  /\ drv.kind # "sync"
  /\ job.alive
  /\ ForegroundFree
  /\ drv.aborts < MaxAborts
  /\ IF job.native_module
     THEN /\ cs' = AbortBegin(cs)
          /\ job' = [job EXCEPT !.alive = FALSE, !.log = Append(@, "Abort")]
          /\ fg' = [At("abort_wait") EXCEPT !.after = "destroy"]
     ELSE LET w0 == CancelBackgroundStepTask(
                      [cs |-> cs,
                       job |-> [job EXCEPT !.alive = FALSE,
                                           !.log = Append(@, "Abort")]])
              w1 == CancelPendingForegroundTask(w0)
          IN cs' = w1.cs /\ job' = w1.job /\ fg' = fg
  /\ drv' = [drv EXCEPT !.aborts = @ + 1, !.phase = "aborted"]
  /\ UNCHANGED <<workers, builder>>

\* ... which returns when no background task runs; then the callbacks go.
\* The destructor then cancels the pending foreground task; the streaming
\* processor goes on with DoSync<DecodeFail, kUseExistingForegroundTask>.
AbortJoin ==
  /\ fg.pc = "abort_wait"
  /\ \A w \in WorkerIds : workers[w].pc = "none"
  /\ LET w0 == [cs |-> AbortEnd(cs), job |-> job]
         w1 == IF fg.after = "decode_fail"
               THEN DoSync(w0, "DecodeFail", TRUE, DecodeError)
               ELSE CancelPendingForegroundTask(w0)
     IN /\ cs' = IF fg.after = "destroy_fin_repost"
                 THEN ScheduleFinisherTask(w1.cs) ELSE w1.cs
        /\ job' = w1.job
  /\ fg' = IF fg.after = "destroy_fin_restart" THEN [At("fin_restart") EXCEPT !.after = "idle"] ELSE Idle
  /\ builder' = IF fg.after = "decode_fail" /\ builder.exists THEN Clear(builder)
                ELSE builder
  /\ UNCHANGED <<workers, drv>>

(* CompilationState::CancelAndWait, called by the owner of the native       *)
(* module on the foreground thread when nothing uses the module any more:  *)
(* the synchronous driver has returned, or the job is gone.                *)
CancelAndWait ==
  /\ ForegroundFree
  /\ \/ drv.kind = "sync" /\ drv.phase = "done"
     \/ drv.kind # "sync" /\ ~job.alive
  /\ drv.cancels < MaxCancels
  /\ cs' = CancelAndWaitBegin(cs)
  /\ fg' = At("cancel_wait")
  /\ drv' = [drv EXCEPT !.cancels = @ + 1]
  /\ UNCHANGED <<workers, builder, job>>

\* ... the join returns when no background task runs.
CancelAndWaitJoin ==
  /\ fg.pc = "cancel_wait"
  /\ \A w \in WorkerIds : workers[w].pc = "none"
  /\ cs' = CancelAndWaitEnd(cs)
  /\ fg' = Idle
  /\ UNCHANGED <<workers, builder, drv, job>>

(* Decoding of a stream fails: the streaming processor calls                *)
(* FinishAsyncCompileJobWithError, at any point of the stream.              *)

FinishAsyncCompileJobWithError ==
  /\ drv.kind = "streaming" /\ drv.phase \in {"start", "code", "after_code"}
  /\ fg.pc = "idle"
  /\ job.alive
  /\ drv' = [drv EXCEPT !.phase = "decode_failed", !.in_chunk = FALSE]
  /\ IF job.native_module
     THEN /\ cs' = AbortBegin(cs)
          /\ fg' = [At("abort_wait") EXCEPT !.after = "decode_fail"]
          /\ job' = job
     ELSE LET w1 == DoSync([cs |-> cs, job |-> job], "DecodeFail", FALSE,
                           DecodeError)
          IN cs' = w1.cs /\ job' = w1.job /\ fg' = fg
  /\ UNCHANGED <<workers, builder>>

----------------------------------------------------------------------------
Init ==
  /\ \E mode \in CompileMode, num_compilation_tasks \in 0..MaxWorkers :
       cs = NewCompilationState(mode, num_compilation_tasks)
  /\ workers = [w \in WorkerIds |-> NoWorker]
  /\ fg = Idle
  /\ builder = NoBuilder
  /\ \E kind \in Drivers, n \in {0, NumFunctions}, bad \in SUBSET Funcs :
       /\ kind = "streaming" => n = NumFunctions
       /\ kind = "streaming" => cs.num_compilation_tasks <= MaxStreamingTasks
       /\ bad \subseteq 1..n
       /\ drv = [kind |-> kind, num_functions |-> n, bad |-> bad,
                 phase |-> "start", next_function |-> 0, in_chunk |-> FALSE,
                 aborts |-> 0, cancels |-> 0, result |-> "none",
                 error |-> NoError,
                 \* observation log: what the last Commit of the stream's
                 \* builder returned
                 last_commit |-> "none"]
       /\ job = NewJob(kind # "sync")

Worker(w) ==
  \/ StartBackgroundTask(w)
  \/ WorkerLoop(w)
  \/ WorkerFetch(w)
  \/ WorkerExecute(w)
  \/ WorkerSchedule(w)
  \/ WorkerStop(w)

Next ==
  \/ \E w \in WorkerIds : Worker(w)
  \/ CompileSequentiallyStart
  \/ CompileWasmFunction
  \/ CompileInParallelStart
  \/ SyncFetch
  \/ SyncExecute
  \/ SyncSchedule
  \/ FinishCheck
  \/ FinishGet
  \/ FinishUnit
  \/ SyncCheck1
  \/ SyncLoop2
  \/ SyncCheck2
  \/ CompileInParallelEnd
  \/ CompileNativeModuleReport
  \/ Start
  \/ DecodeModule
  \/ PrepareAndStartCompile
  \/ ProcessCodeSectionHeader
  \/ ProcessFunctionBody
  \/ OnFinishedChunk
  \/ ProcessSection
  \/ OnFinishedStream
  \/ RunFinishCompileTask
  \/ RunNotifyFailedTask
  \/ RunFreeCallbacksTask
  \/ RunCompileTask
  \/ RunCanceledCompileTask
  \/ FinishAsyncCompileJobWithError
  \/ FinisherRestart
  \/ FinisherGet
  \/ FinisherClear
  \/ FinisherHas
  \/ FinisherReset
  \/ FinisherCheck
  \/ FinisherUnit
  \/ Abort
  \/ AbortJoin
  \/ CancelAndWait
  \/ CancelAndWaitJoin

Spec == Init /\ [][Next]_vars


----------------------------------------------------------------------------
(* Fairness: every worker thread keeps running its task, and the foreground *)
(* thread keeps running what it has begun and the tasks posted to it.  What *)
(* the embedder decides (starting a compilation, the arrival of stream      *)
(* bytes, aborting) is not forced.                                          *)
ForegroundStep ==
  \/ CompileWasmFunction \/ SyncFetch \/ SyncExecute \/ SyncSchedule \/ FinishCheck \/ FinishGet
  \/ FinishUnit \/ SyncCheck1 \/ SyncLoop2 \/ SyncCheck2 \/ CompileInParallelEnd
  \/ CompileNativeModuleReport \/ OnFinishedChunk
  \/ RunFinishCompileTask \/ RunNotifyFailedTask \/ RunFreeCallbacksTask
  \/ RunCompileTask \/ RunCanceledCompileTask \/ PrepareAndStartCompile
  \/ FinisherRestart \/ FinisherGet \/ FinisherClear \/ FinisherHas
  \/ FinisherReset \/ FinisherCheck \/ FinisherUnit \/ AbortJoin
  \/ CancelAndWaitJoin

\* Only the foreground thread is scheduled fairly: a worker thread may never
\* run, or stop running, at any point.
ForegroundFairSpec ==
  /\ Spec
  /\ WF_vars(ForegroundStep)

FairSpec ==
  /\ Spec
  /\ WF_vars(ForegroundStep)
  /\ WF_vars(DecodeModule)
  /\ \A w \in WorkerIds : WF_vars(Worker(w))

----------------------------------------------------------------------------
(* Observations used by the properties *)

\* How many times NotifyOnEvent was called with the event.
Fired(event) == Cardinality({i \in 1..Len(cs.fired) : cs.fired[i].event = event})
\* How many times a registered callback received the event.
Delivered(event) == Count(cs.delivered, event)
\* How many NotifyFailedTasks wait on the foreground task runner.
PendingNotifyFailed == Count(cs.foreground_task_runner, "NotifyFailedTask")

\* In how many places the unit is held.
Holders(u) ==
    Count(builder.baseline_units, u) + Count(builder.tiering_units, u)
  + Count(cs.baseline_compilation_units, u) + Count(cs.tiering_compilation_units, u)
  + Count(cs.baseline_finish_units, u) + Count(cs.tiering_finish_units, u)
  + Cardinality({w \in WorkerIds : workers[w].unit = u})
  + (IF fg.unit = u THEN 1 ELSE 0)

PendingUnits == Len(cs.baseline_compilation_units) + Len(cs.tiering_compilation_units)
FinishedUnits == Len(cs.baseline_finish_units) + Len(cs.tiering_finish_units)
NoWorkerRuns == \A w \in WorkerIds : workers[w].pc = "none"

\* Nothing runs and nothing is left to run: no task is posted anywhere, no
\* thread is inside a task, and the driver has delivered all it has.
Quiescent ==
  /\ fg.pc = "idle" /\ ~drv.in_chunk
  /\ cs.foreground_task_runner = <<>>
  /\ cs.worker_pool = 0 /\ NoWorkerRuns
  /\ \/ drv.phase \in {"finished", "done", "aborted", "decode_failed"}
     \/ (drv.kind = "async" /\ drv.phase = "compiling")
     \/ (drv.kind # "sync" /\ ~job.alive)


----------------------------------------------------------------------------
(* Properties *)

Events == {cs.fired[i].event : i \in 1..Len(cs.fired)}
SuccessEvents == {kFinishedBaselineCompilation, kFinishedTopTierCompilation}

\* C1: compile_error goes from absent to present at most once: once an error
\* is latched, no step (a later SetError of a worker, an Abort) changes its
\* function index or message, and failed() stays true.
C1_ErrorLatchedOnce ==
  [][failed(cs) => cs'.compile_error = cs.compile_error]_vars

\* A SetError call that came after the latch of a worker's error.
C1_Witness ==
  cs.set_error_calls = 2 /\ cs.compile_error.msg = "compile error"

\* C2: when SetError was called at least once, NotifyOnEvent is called with
\* kFailedCompilation exactly once: one notification task is posted by the
\* call that latched the error and by no other call, and it runs, unless
\* the teardown of the state (CancelAndWait) cancels it first.
C2_ExactlyOneFailedEvent ==
  /\ [](Fired(kFailedCompilation) + PendingNotifyFailed <= 1)
  /\ [](~cs.foreground_canceled =>
          Fired(kFailedCompilation) + PendingNotifyFailed
            = IF cs.set_error_calls > 0 THEN 1 ELSE 0)
  /\ [](failed(cs) <=> cs.set_error_calls > 0)
  /\ (cs.set_error_calls > 0
        ~> (Fired(kFailedCompilation) = 1 \/ cs.foreground_canceled))

\* Two or more SetError calls, and the one notification has run.
C2_Witness ==
  cs.set_error_calls = 2 /\ Fired(kFailedCompilation) = 1

\* C3 as claimed: at most one kFinishedTopTierCompilation, at most one
\* kFailedCompilation, and never both.
C3_NeverBothFinalEvents ==
  /\ Fired(kFinishedTopTierCompilation) <= 1
  /\ Fired(kFailedCompilation) <= 1
  /\ ~(kFinishedTopTierCompilation \in Events /\ kFailedCompilation \in Events)

\* C3 as amended: each final event fires at most once, and the registered
\* callbacks receive at most one final event; both may fire.
C3_AtMostOneFinalEventDelivered ==
  /\ Fired(kFinishedTopTierCompilation) <= 1
  /\ Fired(kFailedCompilation) <= 1
  /\ Delivered(kFinishedTopTierCompilation) + Delivered(kFailedCompilation) <= 1

\* Both final events fired, one of them to a registered callback.
C3_Witness ==
  /\ Fired(kFinishedTopTierCompilation) = 1 /\ Fired(kFailedCompilation) = 1
  /\ Delivered(kFinishedTopTierCompilation) = 1

\* C4 as claimed: kFinishedBaselineCompilation fires at most once and first,
\* and no event of any kind fires after a final event.
C4_NoEventAfterFinal ==
  /\ \A i \in 1..Len(cs.fired) :
       cs.fired[i].event = kFinishedBaselineCompilation => i = 1
  /\ \A i \in 1..Len(cs.fired) :
       cs.fired[i].event \in FinalEvents => i = Len(cs.fired)

\* C4 as amended: kFinishedBaselineCompilation fires at most once and first;
\* the only event that fires after a final event is a kFailedCompilation
\* after kFinishedTopTierCompilation, and it is the last; the callbacks
\* receive kFinishedBaselineCompilation first if at all and nothing after a
\* final event.
C4_EventOrder ==
  /\ \A i \in 1..Len(cs.fired) :
       cs.fired[i].event = kFinishedBaselineCompilation => i = 1
  /\ \A i \in 1..Len(cs.fired) :
       cs.fired[i].event \in FinalEvents /\ i < Len(cs.fired)
         => /\ cs.fired[i].event = kFinishedTopTierCompilation
            /\ cs.fired[i + 1].event = kFailedCompilation
            /\ i + 1 = Len(cs.fired)
  /\ \A i \in 1..Len(cs.delivered) :
       /\ cs.delivered[i] = kFinishedBaselineCompilation => i = 1
       /\ cs.delivered[i] \in FinalEvents => i = Len(cs.delivered)

\* All three events fired; the callback received the two success events.
C4_Witness ==
  /\ Len(cs.fired) = 3
  /\ cs.delivered = <<kFinishedBaselineCompilation, kFinishedTopTierCompilation>>

\* C5: a unit is never held in two places, is handed out by
\* GetNextCompilationUnit at most once and returned by GetNextExecutedUnit at
\* most once; between the two it is held in exactly one place (a worker, the
\* caller thread of the sync driver, or a finished queue), and before the
\* first only in the builder or a pending queue.
C5_UnitOwnedOnce ==
  \A u \in AllUnits :
    /\ Holders(u) <= 1
    /\ cs.handed_out[u] <= 1 /\ cs.returned[u] <= cs.handed_out[u]
    /\ cs.handed_out[u] = 1 /\ cs.returned[u] = 0 =>
         /\ Holders(u) = 1
         /\ Count(cs.baseline_compilation_units, u)
              + Count(cs.tiering_compilation_units, u) = 0
    /\ cs.handed_out[u] = 0 =>
         Holders(u) = Count(builder.baseline_units, u)
                        + Count(builder.tiering_units, u)
                        + Count(cs.baseline_compilation_units, u)
                        + Count(cs.tiering_compilation_units, u)
    /\ cs.returned[u] = 1 => Holders(u) = (IF fg.unit = u THEN 1 ELSE 0)

\* Two workers hold units while a finisher holds a third.
C5_Witness ==
  /\ \A w \in WorkerIds : workers[w].unit # NoUnit
  /\ fg.unit # NoUnit /\ cs.returned[fg.unit] = 1

\* C6: (as a final result) units are never left in a pending queue of a
\* compilation that has not failed when no worker runs or is posted and
\* nothing is left that would restart one.
C6_NoPendingUnitLeft ==
  Quiescent /\ ~failed(cs) => PendingUnits = 0

\* C7: (as a final result) in the async and streaming drivers, when no error
\* is latched, nothing is left in a finished queue and both outstanding
\* counters are zero once everything has run.
C7_AllUnitsFinalized ==
  Quiescent /\ ~failed(cs) /\ drv.kind # "sync" =>
    FinishedUnits = 0 /\ ~has_outstanding_units(cs)

C9_NoUnitsAddedAfterError ==
  cs.added_failed = 0

\* C9 as amended: units appended after the latch come from a commit of the
\* streaming driver only, and once an error is latched no step starts a
\* background task.
C9_NoTaskStartedAfterError ==
  /\ [](cs.added_failed > 0 => drv.kind = "streaming")
  /\ [][failed(cs) => /\ cs'.worker_pool <= cs.worker_pool
                      /\ cs'.num_background_tasks <= cs.num_background_tasks]_vars

\* A streaming commit appended units after the latch.
C9_Witness ==
  cs.added_failed > 0 /\ PendingUnits > 0

\* C10: once an error is latched, no success event fires and no finisher
\* finalizes a unit.
C10_NothingFinishedAfterError ==
  /\ cs.finalized_failed = 0
  /\ \A i \in 1..Len(cs.fired) :
       cs.fired[i].event \in SuccessEvents => ~cs.fired[i].failed

\* The foreground thread is in a finisher body that holds the flag: the loop
\* of a FinishCompileTask up to its own SetFinisherIsRunning(false), the
\* destructor of the job called from inside that loop, or FinishCompilationUnits.
FinisherProcesses ==
  \/ fg.pc \in {"fin_restart", "fin_get", "fin_check", "fin_unit", "fin_clear",
                "finish_check", "finish_get", "finish_unit"}
  \/ fg.pc = "abort_wait" /\ fg.after \in {"destroy_fin_restart", "destroy_fin_repost"}
\* The foreground thread is anywhere in a finisher body.
FinisherExecutes == FinisherProcesses \/ fg.pc \in {"fin_has", "fin_reset"}
PostedFinishers == Count(cs.foreground_task_runner, "FinishCompileTask")
RunningWorkers == Cardinality({w \in WorkerIds : workers[w].pc # "none"})

\* C11 as claimed: whenever a finisher body executes, finisher_is_running_ is
\* true.
C11_FlagWhileFinisherExecutes ==
  FinisherExecutes => cs.finisher_is_running

\* C11 as amended: finisher_is_running_ is true whenever a finisher body
\* dequeues or finalizes units (it is false only on the exit path of a
\* FinishCompileTask, after the task cleared it itself); at most one
\* FinishCompileTask is posted at a time, only with the flag set, and none
\* while a body processes units, so no two bodies overlap.
C11_FinisherExclusive ==
  /\ FinisherProcesses => cs.finisher_is_running /\ PostedFinishers = 0
  /\ PostedFinishers <= 1
  /\ PostedFinishers = 1 => cs.finisher_is_running

\* A finisher holds a unit while another finished unit waits, and no second
\* finisher was posted for it.
C11_Witness ==
  /\ fg.pc \in {"fin_check", "fin_unit", "finish_unit"}
  /\ FinishedUnits > 0 /\ PostedFinishers = 0

\* C12: num_background_tasks_ never exceeds max_background_tasks_, and the
\* worker tasks that are posted or running and have not yet called
\* OnBackgroundTaskStopped never exceed num_background_tasks_, hence not
\* max_background_tasks_; with max_background_tasks_ = 1 at most one exists.
C12_WorkersBounded ==
  /\ cs.num_background_tasks <= cs.max_background_tasks
  /\ cs.worker_pool + RunningWorkers <= cs.num_background_tasks
  /\ cs.max_background_tasks = 1 => cs.worker_pool + RunningWorkers <= 1

\* One worker allowed, one running, and a unit waits for it.
C12_Witness ==
  cs.max_background_tasks = 1 /\ RunningWorkers = 1 /\ PendingUnits > 0

\* How often the job's log holds the entry.
LogCount(what) == Count(job.log, what)

\* C13: in streaming compilation FinishCompile is invoked at most once, not
\* before both OnFinishedStream has run and kFinishedBaselineCompilation was
\* delivered to the job's callback, and it has been invoked once both have
\* happened (by the later of the two).
C13_FinishCompileAfterBoth ==
  drv.kind = "streaming" =>
    /\ LogCount("FinishCompile") <= 1
    /\ Logged("FinishCompile") <=>
         Logged("OnFinishedStream") /\ Logged(kFinishedBaselineCompilation)
    /\ Logged("FinishCompile") =>
         /\ LogIndex("OnFinishedStream") < LogIndex("FinishCompile")
         /\ LogIndex(kFinishedBaselineCompilation) < LogIndex("FinishCompile")

\* The baseline compilation reported first, the stream second, and
\* FinishCompile was invoked.
C13_Witness ==
  /\ drv.kind = "streaming" /\ Logged("FinishCompile")
  /\ LogIndex(kFinishedBaselineCompilation) < LogIndex("OnFinishedStream")

\* C14: the resolver of an async or streaming job is invoked at most once:
\* OnCompilationSucceeded and OnCompilationFailed are never both called and
\* neither is called twice.
C14_ResolverAtMostOnce ==
  /\ job.resolved + job.rejected <= 1
  /\ LogCount("OnCompilationSucceeded") = job.resolved
  /\ LogCount("OnCompilationFailed") = job.rejected

\* A compile error was delivered to the job, a decode error of the stream
\* replaced the pending CompileFailed step, and the resolver was rejected once.
C14_Witness ==
  /\ Logged(kFailedCompilation) /\ job.step = "DecodeFail"
  /\ job.rejected = 1

\* An async compilation, started and not aborted, of a module with a function
\* that does not compile.
AsyncWithInvalidFunction ==
  drv.kind = "async" /\ drv.phase = "compiling" /\ drv.bad # {}

\* C15: in an async compile with a function that fails to compile (and no
\* abort) the resolver is never resolved; it is eventually rejected, and when
\* it is, kFailedCompilation has fired exactly once, the job went through the
\* CompileFailed step, the error it is rejected with is the latched one, of a
\* function that does not compile, and the job has left the registry.
C15_AsyncCompileError ==
  /\ [](AsyncWithInvalidFunction =>
          /\ job.resolved = 0
          /\ Fired(kFailedCompilation) <= 1
          /\ job.rejected = 1 =>
               /\ Fired(kFailedCompilation) = 1
               /\ Logged("CompileFailed")
               /\ job.reject_error = cs.compile_error
               /\ job.reject_error.func_index \in drv.bad
               /\ ~job.alive)
  /\ (AsyncWithInvalidFunction ~> (job.rejected = 1 \/ drv.phase = "aborted"))

\* One function was finalized, the other failed, the resolver was rejected.
C15_Witness ==
  /\ AsyncWithInvalidFunction /\ job.rejected = 1
  /\ cs.finalized[kBaseline] = 1

\* C16 as claimed: after abort() on a job whose compilation runs, the resolver
\* has received a failure carrying "Compilation aborted" once everything has run.
C16_ResolverRejectedOnAbort ==
  Logged("Abort") /\ Quiescent =>
    job.rejected = 1 /\ job.reject_error.msg = "Compilation aborted"

\* C16 as amended: abort() on a job whose compilation runs latches an error
\* (the generic one if none was latched before) and removes the job from the
\* registry; when the abort has returned no worker task runs or is left to
\* start; the resolver is not invoked by the abort or after it; and the join
\* inside Abort always returns.
C16_AbortJoinsAndStaysSilent ==
  /\ [](Logged("Abort") =>
          /\ ~job.alive /\ (job.native_module => failed(cs))
          /\ cs.set_error_calls = 1 => cs.compile_error.msg = "Compilation aborted"
          /\ fg.pc # "abort_wait" => RunningWorkers = 0 /\ cs.worker_pool = 0)
  /\ [][Logged("Abort")' =>
          job'.resolved = job.resolved /\ job'.rejected = job.rejected]_vars
  /\ (fg.pc = "abort_wait" ~> fg.pc # "abort_wait")

\* The abort returned; it came while a unit was handed out and not yet
\* finalized, and the resolver was not invoked.
C16_Witness ==
  /\ Logged("Abort") /\ fg.pc = "idle"
  /\ cs.compile_error.msg = "Compilation aborted"
  /\ \E u \in AllUnits : cs.handed_out[u] = 1 /\ cs.returned[u] = 0
  /\ job.resolved + job.rejected = 0

\* What a second Abort must leave alone: the latched error, the queues, the
\* counters and the callbacks.
AbortVisible(s) ==
  <<s.compile_error, s.baseline_compilation_units, s.tiering_compilation_units,
    s.baseline_finish_units, s.tiering_finish_units, s.outstanding_baseline_units,
    s.outstanding_tiering_units, s.num_background_tasks, s.finisher_is_running,
    s.callbacks, s.worker_pool>>

\* C17: the first Abort on a state that has not failed latches the generic
\* error; an Abort on a failed state keeps the latched error; when an Abort
\* has returned no background task runs or is left to start; and a second
\* Abort, from its call to its return, changes neither the error, the queues,
\* the counters nor the callbacks and posts no task.
C17_AbortIdempotent ==
  /\ [](cs.abort_calls > 0 /\ fg.pc # "abort_wait" =>
          RunningWorkers = 0 /\ cs.worker_pool = 0)
  /\ [][cs'.abort_calls > cs.abort_calls =>
          cs'.compile_error = (IF failed(cs) THEN cs.compile_error
                               ELSE [func_index |-> 0, msg |-> "Compilation aborted"])]_vars
  /\ [][\/ cs.abort_calls = 1 /\ cs'.abort_calls = 2
        \/ cs.abort_calls = 2 /\ fg.pc = "abort_wait"
        => /\ AbortVisible(cs') = AbortVisible(cs)
           /\ Len(cs'.foreground_task_runner) <= Len(cs.foreground_task_runner)]_vars

\* A worker latched a compile error, then Abort was called twice and
\* returned twice; the compile error is still the latched one.
C17_Witness ==
  /\ cs.abort_calls = 2 /\ fg.pc = "idle"
  /\ cs.compile_error.msg = "compile error"

\* An asynchronous compilation of a module whose functions are all valid.
AsyncAllValid(mode) ==
  /\ drv.kind = "async" /\ drv.phase = "compiling"
  /\ cs.compile_mode = mode /\ num_functions > 0 /\ drv.bad = {}

\* C18: an asynchronous compilation in regular mode of valid functions
\* finalizes no more units than there are functions, delivers
\* kFinishedBaselineCompilation at most once and kFinishedTopTierCompilation
\* in the same OnFinishedUnit call right after it, resolves the resolver only
\* after all units were finalized and both events delivered, and, unless the
\* embedder aborts, does resolve it.
C18_AsyncRegularSucceeds ==
  /\ [](AsyncAllValid("kRegular") =>
          /\ cs.finalized[kBaseline] <= NumFunctions
          /\ cs.finalized[kOptimized] = 0
          /\ Delivered(kFinishedBaselineCompilation) <= 1
          /\ job.rejected = 0
          /\ job.resolved = 1 =>
               /\ cs.finalized[kBaseline] = NumFunctions
               /\ cs.delivered = <<kFinishedBaselineCompilation,
                                   kFinishedTopTierCompilation>>)
  /\ [][/\ AsyncAllValid("kRegular")
        /\ Len(cs'.delivered) > Len(cs.delivered)
        => /\ cs.delivered = <<>>
           /\ cs'.delivered = <<kFinishedBaselineCompilation,
                                kFinishedTopTierCompilation>>
           /\ cs'.finalized[kBaseline] = NumFunctions]_vars
  /\ (AsyncAllValid("kRegular") ~> (job.resolved = 1 \/ drv.phase = "aborted"))

\* The resolver received the module of a regular-mode compilation.
C18_Witness ==
  /\ drv.kind = "async" /\ cs.compile_mode = "kRegular" /\ drv.bad = {}
  /\ job.resolved = 1 /\ cs.finalized[kBaseline] = NumFunctions

\* C19 as stated: in an asynchronous tiering compilation of valid functions
\* the CompileWrappers step runs after kFinishedBaselineCompilation was
\* delivered and before kFinishedTopTierCompilation is delivered.
C19_CompileWrappersBetweenEvents ==
  AsyncAllValid("kTiering") =>
    /\ Logged("CompileWrappers") =>
         /\ Logged(kFinishedBaselineCompilation)
         /\ LogIndex(kFinishedBaselineCompilation) < LogIndex("CompileWrappers")
    /\ Logged(kFinishedTopTierCompilation) =>
         /\ Logged("CompileWrappers")
         /\ LogIndex("CompileWrappers") < LogIndex(kFinishedTopTierCompilation)

\* C19: in an asynchronous tiering compilation of valid functions the
\* CompileWrappers step runs at most once and only after
\* kFinishedBaselineCompilation was delivered; kFinishedTopTierCompilation
\* may be delivered before it, and then the job stays registered until
\* FinishModule has run or the embedder aborts.
C19_CompileWrappersAfterBaseline ==
  AsyncAllValid("kTiering") =>
    /\ LogCount("CompileWrappers") <= 1
    /\ Logged("CompileWrappers") =>
         /\ Logged(kFinishedBaselineCompilation)
         /\ LogIndex(kFinishedBaselineCompilation) < LogIndex("CompileWrappers")
    /\ Logged(kFinishedTopTierCompilation) /\ ~Logged("FinishModule")
         /\ ~Logged("Abort") => job.alive

\* The finisher delivered kFinishedTopTierCompilation while the
\* CompileWrappers task was still posted; the step ran afterwards.
C19_Witness ==
  /\ AsyncAllValid("kTiering")
  /\ Logged("CompileWrappers") /\ Logged(kFinishedTopTierCompilation)
  /\ LogIndex(kFinishedTopTierCompilation) < LogIndex("CompileWrappers")

\* C20 as stated: in streaming compilation kFinishedTopTierCompilation is
\* delivered to the job's callback only after OnFinishedStream was processed.
C20_TopTierAfterFinishedStream ==
  drv.kind = "streaming" /\ Logged(kFinishedTopTierCompilation) =>
    /\ Logged("OnFinishedStream")
    /\ LogIndex("OnFinishedStream") < LogIndex(kFinishedTopTierCompilation)

\* C20: in streaming compilation kFinishedTopTierCompilation may be delivered
\* to the job's callback before OnFinishedStream was processed; the job then
\* stays registered, and without a stream error or an abort it is neither
\* finished nor resolved before OnFinishedStream was processed.
C20_JobKeptUntilFinishedStream ==
  drv.kind = "streaming" /\ ~Logged("OnFinishedStream") =>
    /\ ~Logged("FinishCompile")
    /\ job.resolved = 0
    /\ Logged(kFinishedTopTierCompilation) /\ ~Logged("Abort")
         /\ drv.phase # "decode_failed" => job.alive

\* kFinishedTopTierCompilation was delivered to the job before the stream
\* ended; OnFinishedStream was processed afterwards.
C20_Witness ==
  /\ drv.kind = "streaming"
  /\ Logged(kFinishedTopTierCompilation) /\ Logged("OnFinishedStream")
  /\ LogIndex(kFinishedTopTierCompilation) < LogIndex("OnFinishedStream")

\* C21: the synchronous driver reports a failure exactly when an error is
\* latched as it returns, and reports the latched error, which no later
\* error replaces; with an invalid function it never reports success; when
\* the parallel flavour reports success every baseline unit was finalized.
C21_SyncReportsLatchedError ==
  /\ [][drv.kind = "sync" /\ drv.phase # "done" /\ drv'.phase = "done" =>
          /\ drv'.result = "error" <=> failed(cs)
          /\ drv'.result = "ok" <=> ~failed(cs)
          /\ drv'.error = cs.compile_error]_vars
  /\ [][drv.kind = "sync" /\ failed(cs) =>
          cs'.compile_error = cs.compile_error]_vars
  /\ [](drv.kind = "sync" /\ drv.phase = "done" =>
          /\ drv.bad # {} => /\ drv.result = "error"
                             /\ drv.error.func_index \in drv.bad
          /\ drv.result = "ok" /\ compile_parallel =>
               cs.finalized[kBaseline] = num_functions)

\* CompileInParallel returned with an error after two functions had
\* reported one; the caller got the first.
C21_Witness ==
  /\ drv.kind = "sync" /\ drv.phase = "done" /\ compile_parallel
  /\ drv.result = "error" /\ cs.set_error_calls = 2
  /\ drv.error = cs.compile_error

\* The asynchronous job of a module without functions, decoded.
EmptyModuleDecoded ==
  /\ drv.kind = "async" /\ num_functions = 0
  /\ drv.phase \in {"decoded", "compiling", "aborted"}

\* C22 as stated: for a module without functions the asynchronous job
\* registers no callback, does not set the number of functions, enqueues no
\* unit, and the compilation state fires no event.
C22_EmptyModuleFiresNothing ==
  EmptyModuleDecoded =>
    /\ cs.callbacks = <<>> /\ cs.set_total_calls = 0
    /\ PendingUnits = 0 /\ FinishedUnits = 0
    /\ cs.fired = <<>>
    /\ job.rejected = 0

\* C22: for a module without functions the asynchronous job registers no
\* callback, does not set the number of functions, enqueues no unit and
\* delivers no event; the compilation state fires nothing while the job is
\* registered, and afterwards only the kFailedCompilation of the Abort in
\* the job's destructor; the resolver is never rejected, it is resolved
\* unless the embedder aborts, and FinishModule removes the job, once.
C22_EmptyModuleCompletes ==
  /\ [](EmptyModuleDecoded =>
          /\ cs.callbacks = <<>> /\ cs.set_total_calls = 0
          /\ PendingUnits = 0 /\ FinishedUnits = 0
          /\ cs.delivered = <<>>
          /\ job.rejected = 0
          /\ cs.fired # <<>> =>
               /\ ~job.alive
               /\ cs.fired = <<[event |-> kFailedCompilation, failed |-> TRUE]>>
          /\ job.resolved = 1 =>
               /\ ~job.alive
               /\ LogCount("RemoveCompileJob") = 1
               /\ LogIndex("FinishModule") < LogIndex("RemoveCompileJob")
          /\ job.resolved = 0 /\ ~Logged("Abort") => job.alive)
  /\ (EmptyModuleDecoded ~> (job.resolved = 1 \/ drv.phase = "aborted"))

\* The resolver received the empty module, the job is gone, and the
\* notification of its destructor's Abort has run.
C22_Witness ==
  /\ EmptyModuleDecoded /\ job.resolved = 1 /\ ~job.alive
  /\ Len(cs.fired) = 1

\* C23: with --wasm-num-compilation-tasks=0 at most one background task is
\* allowed, no task is handed to a worker thread, a BackgroundCompileTask
\* runs only on the foreground thread, which runs nothing else meanwhile,
\* and an asynchronous compilation of valid functions still finalizes every
\* unit and resolves the resolver unless the embedder aborts.
C23_ForegroundOnlyCompletes ==
  /\ [](cs.num_compilation_tasks = 0 =>
          /\ cs.max_background_tasks = 1
          /\ cs.worker_pool = 0 /\ ~job.background_task
          /\ RunningWorkers <= 1
          /\ RunningWorkers = 1 <=> fg.pc = "background_task"
          /\ job.resolved = 1 /\ num_functions > 0 =>
               cs.finalized[kBaseline] = num_functions)
  /\ (\A mode \in CompileMode :
        cs.num_compilation_tasks = 0 /\ AsyncAllValid(mode)
          ~> \/ /\ job.resolved = 1
                /\ cs.finalized[kBaseline] = num_functions
                /\ mode = "kTiering" => cs.finalized[kOptimized] = num_functions
             \/ drv.phase = "aborted")

\* Decoding, compiling and finishing all ran on the foreground thread; the
\* resolver received the module and the top tier is complete.
C23_Witness ==
  /\ cs.num_compilation_tasks = 0 /\ AsyncAllValid("kTiering")
  /\ job.resolved = 1 /\ cs.finalized[kOptimized] = num_functions

\* The foreground thread is inside a FinishCompileTask.
InFinishCompileTask ==
  fg.pc \in {"fin_restart", "fin_get", "fin_clear", "fin_has", "fin_reset",
             "fin_check", "fin_unit"}

\* Tasks of the compilation state that are posted and would run.
RunnableTasks ==
  {i \in DOMAIN cs.foreground_task_runner :
     cs.foreground_task_runner[i]
       \in ForegroundManaged \cup {"BackgroundCompileTask"}}

\* C24: once CancelAndWait has returned no background task and no
\* finisher or notification task of the state runs or is left to run, no
\* unit is fetched or finalized and no event fires any more; a further
\* CancelAndWait, from its call to its return, leaves the state as it was.
C24_CancelAndWaitIdempotent ==
  /\ [](cs.foreground_canceled =>
          /\ RunningWorkers = 0 /\ cs.worker_pool = 0
          /\ RunnableTasks = {}
          /\ ~InFinishCompileTask)
  /\ [][cs.foreground_canceled =>
          /\ cs'.fired = cs.fired
          /\ cs'.finalized = cs.finalized
          /\ cs'.handed_out = cs.handed_out]_vars
  /\ [][/\ cs.foreground_canceled
        /\ drv'.cancels > drv.cancels \/ fg.pc = "cancel_wait"
        => cs' = cs]_vars

\* CancelAndWait returned twice; the first call came while top-tier units
\* were outstanding and canceled a posted task of the state.
C24_Witness ==
  /\ drv.cancels = 2 /\ fg.pc = "idle"
  /\ ~failed(cs) /\ has_outstanding_units(cs)
  /\ \E i \in DOMAIN cs.foreground_task_runner :
       cs.foreground_task_runner[i] = "CanceledForegroundTask"

\* The step calls CommitCompilationUnits: the end of a chunk of the stream
\* with a builder, or the first section after the code section.
CommitStep ==
  /\ drv.kind = "streaming" /\ builder.exists
  /\ \/ drv.in_chunk /\ ~drv'.in_chunk /\ drv'.phase = drv.phase
     \/ drv.phase = "code" /\ drv'.phase = "after_code"

\* C25: a Commit of an empty builder returns false and changes neither the
\* compilation state (its queues, its task counters, the tasks it posted)
\* nor the builder; a Commit of a builder with units returns true, moves
\* its units to the pending queues and leaves the builder empty.
C25_CommitEmptyIsNoOp ==
  [][CommitStep =>
       IF builder.baseline_units = <<>> /\ builder.tiering_units = <<>>
       THEN /\ ~CommitResult(builder)
            /\ cs' = cs
            /\ builder'.exists => builder' = builder
       ELSE /\ CommitResult(builder)
            /\ builder'.baseline_units = <<>> /\ builder'.tiering_units = <<>>
            /\ Len(cs'.baseline_compilation_units)
                 = Len(cs.baseline_compilation_units) + Len(builder.baseline_units)
            /\ Len(cs'.tiering_compilation_units)
                 = Len(cs.tiering_compilation_units) + Len(builder.tiering_units)]_vars

\* The last Commit was one of an empty builder; a unit committed earlier is
\* pending and a background task could be started.
C25_Witness ==
  /\ drv.kind = "streaming" /\ drv.last_commit = "false"
  /\ PendingUnits > 0 /\ ~failed(cs)
  /\ cs.num_background_tasks < cs.max_background_tasks

\* C26: baseline_compilation_finished() holds exactly when
\* outstanding_baseline_units_ is 0; in tiering mode
\* outstanding_tiering_units_ is never 0 while baseline units are
\* outstanding.
C26_BaselineFinishedIffZero ==
  /\ baseline_compilation_finished(cs) <=> cs.outstanding_baseline_units = 0
  /\ cs.compile_mode = "kTiering" /\ cs.outstanding_tiering_units = 0
       => cs.outstanding_baseline_units = 0

\* Tiering mode: a baseline unit was counted, another is outstanding, and
\* baseline_compilation_finished() is false.
C26_Witness ==
  /\ cs.compile_mode = "kTiering"
  /\ cs.outstanding_baseline_units > 0
  /\ cs.outstanding_baseline_units < num_functions
  /\ cs.outstanding_tiering_units = num_functions
  /\ ~baseline_compilation_finished(cs)

\* C27: the job's callback receives kFailedCompilation only as its first
\* event, kFinishedBaselineCompilation only as its first event, and
\* kFinishedTopTierCompilation only directly after
\* kFinishedBaselineCompilation (the DCHECKs on last_event_).
C27_CallbackAssertionsHold ==
  \A i \in 1..Len(cs.delivered) :
    /\ cs.delivered[i] = kFailedCompilation => i = 1
    /\ cs.delivered[i] = kFinishedBaselineCompilation => i = 1
    /\ cs.delivered[i] = kFinishedTopTierCompilation
         => i > 1 /\ cs.delivered[i - 1] = kFinishedBaselineCompilation


\* The callback received kFailedCompilation as its first and only event
\* after a unit of another function had been finalized.
C27_Witness ==
  /\ drv.kind # "sync" /\ drv.aborts = 0
  /\ cs.delivered = <<kFailedCompilation>>
  /\ cs.finalized[kBaseline] > 0


\* The calling thread is inside CompileInParallel.
InCompileInParallel ==
  /\ drv.kind = "sync"
  /\ fg.pc \in {"sync_fetch", "sync_execute", "sync_schedule", "finish_check",
                "finish_get", "finish_unit", "sync_check1", "sync_loop2",
                "sync_check2", "sync_end"}

\* CompileInParallel has returned.
CompileInParallelReturned ==
  drv.kind = "sync" /\ compile_parallel /\ fg.pc \in {"sync_report", "idle"}
  /\ drv.phase # "start"

\* Every worker thread keeps running its task.
WorkersFair == \A w \in WorkerIds : WF_vars(Worker(w))

\* C28: CompileInParallel returns when the workers are scheduled fairly, and
\* returns also when no worker ever runs; when it returns the error is
\* latched or baseline compilation has finished.
C28_CompileInParallelTerminates ==
  /\ WorkersFair => (InCompileInParallel ~> CompileInParallelReturned)
  /\ InCompileInParallel ~> (~NoWorkerRuns \/ CompileInParallelReturned)
  /\ [](drv.kind = "sync" /\ fg.pc = "sync_end"
          => failed(cs) \/ baseline_compilation_finished(cs))

\* CompileInParallel returned without an error while every BackgroundCompileTask
\* it had posted was still waiting for a worker thread.
C28_Witness ==
  /\ CompileInParallelReturned /\ ~failed(cs)
  /\ NoWorkerRuns
  /\ cs.worker_pool = cs.max_background_tasks /\ cs.worker_pool > 1
  /\ cs.finalized[kBaseline] = num_functions


\* CompileInParallel returned without an error in tiering mode and released
\* the finisher flag.
TieringHandedOver ==
  /\ CompileInParallelReturned /\ cs.compile_mode = "kTiering"
  /\ ~failed(cs) /\ drv.cancels = 0

\* Every top-tier unit was finalized and the top-tier event fired.
TopTierFinished ==
  /\ cs.outstanding_tiering_units = 0
  /\ cs.finalized[kOptimized] = num_functions
  /\ Fired(kFinishedTopTierCompilation) = 1

\* C29 as claimed: after CompileInParallel returns without an error in
\* tiering mode, every top-tier unit is eventually finalized,
\* outstanding_tiering_units_ reaches 0 and the top-tier event fires.
C29_TopTierEventuallyFinished ==
  TieringHandedOver ~> (TopTierFinished \/ drv.cancels > 0)


\* The entry of the job's log written just before the job left the registry.
RemovedAfter == job.log[LogIndex("RemoveCompileJob") - 1]

\* C30: after a successful asynchronous compilation the job leaves the
\* registry exactly once and only after the resolver's success callback: in
\* regular mode in FinishModule, in tiering mode in FinishModule or in the
\* kFinishedTopTierCompilation callback, whichever comes last, and unless
\* the embedder aborts it does leave.
C30_JobRemovedOnce ==
  /\ [](job.resolved = 1 /\ ~Logged("Abort") =>
          /\ LogCount("RemoveCompileJob") <= 1
          /\ job.alive <=> ~Logged("RemoveCompileJob")
          /\ Logged("RemoveCompileJob") =>
               /\ LogIndex("OnCompilationSucceeded") < LogIndex("RemoveCompileJob")
               /\ LogIndex("RemoveCompileJob") = Len(job.log)
               /\ RemovedAfter \in {"OnCompilationSucceeded",
                                    kFinishedTopTierCompilation}
               /\ cs.compile_mode = "kRegular" \/ num_functions = 0
                    => RemovedAfter = "OnCompilationSucceeded"
               /\ cs.compile_mode = "kTiering" /\ num_functions > 0
                    => Logged(kFinishedTopTierCompilation))
  /\ job.resolved = 1 ~> (Logged("RemoveCompileJob") \/ Logged("Abort"))

\* A tiering compilation whose job was removed by the
\* kFinishedTopTierCompilation callback, after FinishModule had run.
C30_Witness ==
  /\ cs.compile_mode = "kTiering" /\ job.resolved = 1 /\ ~Logged("Abort")
  /\ Logged("RemoveCompileJob")
  /\ RemovedAfter = kFinishedTopTierCompilation


\* How many live CompileTasks of the job wait on the foreground task runner.
PendingCompileTasks == Count(cs.foreground_task_runner, "CompileTask")

\* C31: at most one foreground step task of a job is pending:
\* StartForegroundTask and ExecuteForegroundTaskImmediately are never called
\* while pending_foreground_task_ is set, and the pointer is set exactly
\* while one live CompileTask waits on the foreground task runner.
C31_OnePendingForegroundTask ==
  /\ ~job.task_overwritten
  /\ PendingCompileTasks = IF job.pending_foreground_task THEN 1 ELSE 0

\* A streaming compilation whose compile-failure step was pending when the
\* decoder failed: the DecodeFail step took over the pending task.
C31_Witness ==
  /\ drv.kind = "streaming" /\ drv.phase = "decode_failed"
  /\ Logged(kFailedCompilation)
  /\ job.step = "DecodeFail" /\ job.pending_foreground_task
  /\ PendingCompileTasks = 1


\* The job is gone: it left the registry and its destructor has returned.
JobDestroyed == ~job.alive /\ ~job.destroy /\ fg.pc # "abort_wait"

\* C32: a job destroyed while a foreground step task is pending clears the
\* task's job pointer, so no live task of the job is left, and nothing of
\* the job (step, log, resolver) changes after the job was destroyed.
C32_NoStepAfterDestruction ==
  /\ [](JobDestroyed =>
          /\ PendingCompileTasks = 0 /\ ~job.pending_foreground_task
          /\ Count(cs.foreground_task_runner, "BackgroundStepTask") = 0
          /\ ~job.background_task)
  /\ [][JobDestroyed => job' = job]_vars

\* The embedder aborted the job while its CompileWrappers task was pending:
\* the task is still queued, without its job, and the step never ran.
C32_Witness ==
  /\ JobDestroyed /\ Logged("Abort")
  /\ job.step = "CompileWrappers" /\ ~Logged("CompileWrappers")
  /\ Count(cs.foreground_task_runner, "CanceledCompileTask") = 1


\* Decoding of the stream has failed and FinishAsyncCompileJobWithError has
\* returned.
StreamDecodeFailed ==
  drv.kind = "streaming" /\ drv.phase = "decode_failed" /\ fg.pc # "abort_wait"

\* C33: when decoding of a stream fails the resolver is never resolved and is
\* rejected once, with the decode failure, also when compilation had started
\* or a compile-failure step was pending; with a native module the
\* compilation state is aborted and the unit builder is cleared, and no unit
\* is published afterwards; unless the embedder aborts the job, the
\* rejection does happen.
C33_StreamDecodeFailureRejectsOnce ==
  /\ [](drv.kind = "streaming" /\ drv.phase = "decode_failed" =>
          /\ job.resolved = 0 /\ job.rejected <= 1
          /\ job.rejected = 1 => job.reject_error = DecodeError)
  /\ [](StreamDecodeFailed =>
          /\ builder.baseline_units = <<>> /\ builder.tiering_units = <<>>
          /\ job.native_module => failed(cs) /\ cs.abort_calls >= 1
          /\ job.alive => job.step = "DecodeFail" /\ job.pending_foreground_task)
  /\ [][StreamDecodeFailed => PendingUnits' <= PendingUnits]_vars
  /\ (drv.kind = "streaming" /\ drv.phase = "decode_failed"
        ~> (job.rejected = 1 \/ drv.phase = "aborted"))

\* The decoder failed while the compile-failure step was pending; the
\* resolver received the decode failure.
C33_Witness ==
  /\ StreamDecodeFailed /\ Logged(kFailedCompilation)
  /\ job.rejected = 1 /\ job.reject_error = DecodeError
  /\ cs.abort_calls >= 1


\* How many units were published to the compilation state: those still
\* pending and those a worker has taken.
PublishedUnits ==
  PendingUnits + Cardinality({u \in AllUnits : cs.handed_out[u] > 0})

\* How many units a function body makes.
UnitsPerFunction == IF cs.compile_mode = "kTiering" THEN 2 ELSE 1

\* C34: in streaming the builder is committed at the end of every chunk and
\* committed and discarded at the first section after the code section:
\* between chunks, and so when OnFinishedStream runs, no unit is left in a
\* builder and the units published are one per function body processed, two
\* in tiering mode.
C34_BuilderCommittedPerChunk ==
  /\ /\ drv.kind = "streaming" /\ ~drv.in_chunk
     /\ drv.phase \in {"start", "code", "after_code", "finished"}
     => /\ builder.baseline_units = <<>> /\ builder.tiering_units = <<>>
        /\ PublishedUnits = UnitsPerFunction * drv.next_function
  /\ drv.kind = "streaming" /\ drv.phase \in {"after_code", "finished"}
       /\ Logged("OnFinishedStream") => drv.next_function = num_functions
  /\ drv.kind = "streaming" /\ drv.phase = "after_code" => ~builder.exists

\* A tiering stream has ended after a section that followed the code
\* section; every unit was published.
C34_Witness ==
  /\ drv.kind = "streaming" /\ drv.phase = "finished"
  /\ Logged("OnFinishedStream") /\ ~builder.exists
  /\ cs.compile_mode = "kTiering"
  /\ PublishedUnits = 2 * num_functions


HandedOut(u) == cs'.handed_out[u] > cs.handed_out[u]

\* C36: GetNextCompilationUnit returns the pending baseline unit added last
\* whenever a baseline unit is pending, the pending tiering unit added last
\* only when no baseline unit is pending, nothing exactly when both queues
\* are empty, and removes exactly the unit it returns.
C36_NextUnitLifoBaselineFirst ==
  /\ [](NextCompilationUnit(cs) = NoUnit <=> PendingUnits = 0)
  /\ [][\A u \in AllUnits : HandedOut(u) =>
          /\ \A v \in AllUnits : HandedOut(v) => v = u
          /\ IF cs.baseline_compilation_units # <<>>
             THEN /\ u = Back(cs.baseline_compilation_units)
                  /\ cs'.baseline_compilation_units = PopBack(cs.baseline_compilation_units)
                  /\ cs'.tiering_compilation_units = cs.tiering_compilation_units
             ELSE /\ cs.tiering_compilation_units # <<>>
                  /\ u = Back(cs.tiering_compilation_units)
                  /\ cs'.tiering_compilation_units = PopBack(cs.tiering_compilation_units)
                  /\ cs'.baseline_compilation_units = <<>>]_vars
  /\ [][PendingUnits' < PendingUnits => \E u \in AllUnits : HandedOut(u)]_vars

\* A worker holds the baseline unit added last while an older baseline unit
\* and both units of the top tier are still pending.
C36_Witness ==
  /\ \E w \in WorkerIds : workers[w].unit = Unit(NumFunctions, kBaseline)
  /\ Len(cs.baseline_compilation_units) = NumFunctions - 1
  /\ Len(cs.tiering_compilation_units) = NumFunctions
  /\ Unit(1, kBaseline) \in Range(cs.baseline_compilation_units)


AbortReturned == cs.abort_calls >= 1 /\ fg.pc # "abort_wait"

\* C38: once CompilationStateImpl::Abort has returned no callback is
\* registered and no callback is invoked any more, whatever notification or
\* finisher task still runs on the foreground.
C38_NoCallbackAfterAbort ==
  /\ [](AbortReturned => cs.callbacks = <<>>)
  /\ [][AbortReturned => cs'.delivered = cs.delivered]_vars

\* A callback was registered when the units were published; after the Abort
\* returned every task left on the foreground runner ran, the notification
\* task of SetError among them, and the callback received nothing.
C38_Witness ==
  /\ AbortReturned
  /\ cs.first_add_callbacks = 1
  /\ \E i \in DOMAIN cs.fired : cs.fired[i].event = kFailedCompilation
  /\ cs.delivered = <<>>
  /\ cs.foreground_task_runner = <<>>
  /\ \E u \in AllUnits : cs.returned[u] > 0


\* C39: the outstanding counters never underflow: both stay non-negative,
\* each one is the number of functions less the units of its tier finalized
\* so far (so OnFinishedUnit always finds the counter it decrements above
\* zero), and in Regular mode outstanding_tiering_units is always 0.
C39_CountersNeverUnderflow ==
  /\ cs.outstanding_baseline_units >= 0
  /\ cs.outstanding_tiering_units >= 0
  /\ cs.compile_mode = "kRegular" => cs.outstanding_tiering_units = 0
  /\ cs.set_total_calls = 1 =>
       /\ cs.outstanding_baseline_units = num_functions - cs.finalized[kBaseline]
       /\ cs.compile_mode = "kTiering" =>
            cs.outstanding_tiering_units = num_functions - cs.finalized[kOptimized]

\* A tiering compilation finalized every unit of both tiers: both counters
\* were counted down to zero.
C39_Witness ==
  /\ cs.compile_mode = "kTiering"
  /\ cs.finalized[kBaseline] = NumFunctions
  /\ cs.finalized[kOptimized] = NumFunctions
  /\ cs.outstanding_baseline_units = 0 /\ cs.outstanding_tiering_units = 0


\* A FinishCompileTask is posted on the foreground runner or executes.
FinisherBehind == PostedFinishers > 0 \/ FinisherExecutes

\* C40: in the async and streaming drivers, while no error is latched, a set
\* finisher_is_running_ has a FinishCompileTask posted or executing behind
\* it, and a unit on the finished queue in use is never left without a
\* finisher (so a unit queued with the flag set is not stranded).
C40_FlagHasFinisherBehind ==
  drv.kind # "sync" /\ ~failed(cs) =>
    /\ cs.finisher_is_running => FinisherBehind
    /\ HasCompilationUnitToFinish(cs) => FinisherBehind

\* A FinishCompileTask finalized a unit and is posted again while the
\* foreground is idle; with the flag set a worker added a unit to the
\* finished queue, and a second unit waits there.
C40_Witness ==
  /\ drv.kind # "sync" /\ ~failed(cs)
  /\ cs.finisher_is_running /\ PostedFinishers = 1 /\ fg.pc = "idle"
  /\ cs.finalized[kBaseline] > 0
  /\ Len(cs[finish_units(cs)]) >= 2

=============================================================================
